---- MODULE Spec2Model ----
(***************************************************************************)
(* Model of the snapshot pipeline, the ROI estimators and the alpha cache  *)
(* of jorepong/cctv-back:                                                  *)
(*   analytics/services.py                 scorer and AI stage             *)
(*   analytics/capture.py                  capture                         *)
(*   analytics/tasks.py                    convex-hull ROI estimator       *)
(*   analytics/congestion_analysis_tasks.py  alpha-shape ROI estimator,    *)
(*                                           point window, AlphaCache      *)
(*   analytics/models.py                   enumerations and tables         *)
(* The specifications share the variables: Spec (pipeline), SpecRoi (ROI  *)
(* estimators on small footprint lists), SpecWindow (ROI estimators on     *)
(* batches longer than half the point window), SpecCache (AlphaCache),     *)
(* SpecMerge (efficient_point_management), SpecLevel                       *)
(* (determine_congestion_level), SpecScore (the scorer on any contents of  *)
(* the detection and ROI tables), SpecFifo (the point window over cycles), *)
(* SpecCycle (the periodic ROI task of congestion_analysis_tasks.py),      *)
(* SpecTasks (the periodic ROI task of tasks.py), SpecRead (the scorer     *)
(* next to the estimators), SpecDetect (from the detector to the scorer    *)
(* and the ROI task), SpecCapture (the capture functions) and SpecLive     *)
(* (the pipeline driven by the queue, with fairness).                      *)
(***************************************************************************)
EXTENDS Integers, Sequences, FiniteSets, TLC

VARIABLES
    snapshots,      \* table Snapshots: row i has snapshot_id i
    detected,       \* table Detected_Objects, in insertion order
    events,         \* table Congestion_Events, in insertion order
    queue,          \* tasks handed to async_task, in order
    runs,           \* one record per caller: the invocation it is executing
    nruns,          \* invocations started so far
    roiDefs,        \* table ROI_Definitions, row i has roi_def_id i
    roiRet,         \* outcome of the last ROI estimator call
    now,            \* logical clock of the ROI estimator calls and the tasks
    cache,          \* AlphaCache._cache
    access_order,   \* AlphaCache._access_order
    max_size,       \* AlphaCache._max_size
    cacheRet,       \* outcome of the last AlphaCache call
    hist,           \* the AlphaCache calls made so far
    call            \* a function or task called on its own: its arguments,
                    \* its position and its result

pipeVars  == <<snapshots, detected, events, queue, runs, nruns>>
roiVars   == <<roiDefs, roiRet, now>>
cacheVars == <<cache, access_order, max_size, cacheRet, hist>>
vars      == <<snapshots, detected, events, queue, runs, nruns,
               roiDefs, roiRet, now,
               cache, access_order, max_size, cacheRet, hist, call>>

(***************************************************************************)
(* Bounds of the model.                                                    *)
(***************************************************************************)
NumCameras == 2
MaxSnapshots == 1
NumCallers == 2
MaxRuns == 4
MaxRoiCalls == 3
MaxCacheKeys == 3
MaxCacheSize == 2
MaxCacheOps == 5

Cameras == 1..NumCameras

(***************************************************************************)
(* Enumerations of analytics/models.py.                                    *)
(***************************************************************************)
PENDING    == "PENDING"
PROCESSING == "PROCESSING"
COMPLETED  == "COMPLETED"
FAILED     == "FAILED"
ProcessingStatus == {PENDING, PROCESSING, COMPLETED, FAILED}

LOW       == "LOW"
MEDIUM    == "MEDIUM"
HIGH      == "HIGH"
VERY_HIGH == "VERY_HIGH"
CongestionLevelLabel == {LOW, MEDIUM, HIGH, VERY_HIGH}

\* The members ROIDefinitionType declares; looking up any other name on the
\* class raises AttributeError.
ROIDefinitionType == {"MANUAL_POLYGON", "DYNAMIC_CONVEX_HULL", "MOTION_PATTERN_BASED"}

None == "None"

\* a nullable column or an Optional result: NULL or the value
NULL == <<>>
Value(v) == <<v>>

\* no function is being called on its own
NoCall == [fn |-> "none"]

(***************************************************************************)
(* Sequence helpers.                                                       *)
(***************************************************************************)
Range(s) == {s[i] : i \in DOMAIN s}

\* s[-n:] of Python for n > 0: the last n elements, all of s when it is shorter
LastN(s, n) == IF Len(s) <= n THEN s ELSE SubSeq(s, Len(s) - n + 1, Len(s))

RECURSIVE SumSeq(_)
SumSeq(s) == IF s = <<>> THEN 0 ELSE Head(s) + SumSeq(Tail(s))

(***************************************************************************)
(* Geometry on integer points <<x, y>>, as shapely computes it for the     *)
(* convex-hull estimator. Areas are kept doubled (area2 = 2 * area), which *)
(* is an integer for integer vertices.                                     *)
(***************************************************************************)
Cross(a, b, c) == (b[1] - a[1]) * (c[2] - a[2]) - (b[2] - a[2]) * (c[1] - a[1])

Between(a, b, c) == (c[1] - a[1]) * (b[1] - c[1]) + (c[2] - a[2]) * (b[2] - c[2]) >= 0

PointLess(p, q) == p[1] < q[1] \/ (p[1] = q[1] /\ p[2] < q[2])

Collinear(S) == \A a \in S, b \in S, c \in S : Cross(a, b, c) = 0

\* The directed counter-clockwise boundary segments of the convex hull of S:
\* every point of S lies to the left of a -> b or on the segment itself.
HullEdges(S) ==
    {e \in S \X S :
        /\ e[1] # e[2]
        /\ \A c \in S : /\ Cross(e[1], e[2], c) >= 0
                        /\ Cross(e[1], e[2], c) = 0 => Between(e[1], e[2], c)}

RECURSIVE WalkRing(_, _, _)
WalkRing(E, start, cur) ==
    LET nxt == (CHOOSE e \in E : e[1] = cur)[2]
    IN  IF nxt = start THEN <<cur>> ELSE <<cur>> \o WalkRing(E, start, nxt)

\* A faulty ConvexHullRing: the closing vertex of the exterior ring is kept
ConvexHullRingClosed(S) ==
    LET E == HullEdges(S)
        V == {e[1] : e \in E}
        start == CHOOSE v \in V : \A w \in V : w = v \/ PointLess(v, w)
    IN  WalkRing(E, start, start) \o <<start>>

\* MultiPoint(S).convex_hull for a set that is not collinear: the exterior ring
\* without its closing vertex, counter-clockwise from the lowest-leftmost vertex.
ConvexHullRing(S) ==
    LET E == HullEdges(S)
        V == {e[1] : e \in E}
        start == CHOOSE v \in V : \A w \in V : w = v \/ PointLess(v, w)
    IN  WalkRing(E, start, start)

\* Polygon(ring).area, doubled: the shoelace sum over the ring.
RingArea2(ring) ==
    LET n == Len(ring)
        Term(i) == LET a == ring[i]
                       b == ring[(i % n) + 1]
                   IN  a[1] * b[2] - b[1] * a[2]
        s == SumSeq([i \in 1..n |-> Term(i)])
    IN  IF s < 0 THEN -s ELSE s

\* Polygon(ring).contains(Point(p)) for a convex counter-clockwise ring: true
\* for interior points only, a point on the boundary is not contained.
Contains(ring, p) ==
    LET n == Len(ring)
    IN  \A i \in 1..n : Cross(ring[i], ring[(i % n) + 1], p) > 0

(***************************************************************************)
(* Table ROI_Definitions (analytics/models.py). definition_data is a       *)
(* record whose DOMAIN is the set of keys the JSON document holds.         *)
(***************************************************************************)
\* ROIDefinitions.objects.filter(camera=camera, is_active=True)
ActiveRoiIds(defs, camera_id) ==
    {i \in DOMAIN defs : defs[i].camera = camera_id /\ defs[i].is_active}

\* .first() of an unordered queryset: the row with the lowest primary key
FirstActiveRoi(defs, camera_id) ==
    LET ids == ActiveRoiIds(defs, camera_id)
    IN  IF ids = {} THEN 0 ELSE CHOOSE i \in ids : \A j \in ids : i <= j

\* ROIDefinitions.objects.create(camera, definition_type, definition_data,
\* is_active=True, version=1); created_at is auto_now_add, updated_at auto_now
CreateRoi(defs, camera_id, definition_type, data, t) ==
    Append(defs, [camera |-> camera_id, definition_type |-> definition_type,
                  definition_data |-> data, is_active |-> TRUE, version |-> 1,
                  created_at |-> t, updated_at |-> t])

\* A faulty OverwriteRoi: of the new definition_data only the area reaches the
\* row, the boundary stays the old one
OverwriteRoiAreaOnly(defs, id, data, t) ==
    [defs EXCEPT ![id].definition_data =
                    IF "area" \in DOMAIN data
                    THEN [k \in DOMAIN @ \cup {"area"} |->
                             IF k = "area" THEN data.area ELSE @[k]]
                    ELSE @,
                 ![id].updated_at = t]

\* current_roi_def.definition_data = data; current_roi_def.save()
OverwriteRoi(defs, id, data, t) ==
    [defs EXCEPT ![id].definition_data = data, ![id].updated_at = t]

(***************************************************************************)
(* analytics/tasks.py: update_roi_for_camera_service, the convex-hull      *)
(* estimator. The result is the table after the call and the value         *)
(* returned.                                                               *)
(***************************************************************************)
\* A faulty ExistingRing: the stored polygon is ignored
ExistingRingForgotten(defs, cur) == <<>>

\* lines 150-162: the ring of the stored polygon, <<>> when there is none
ExistingRing(defs, cur) ==
    IF /\ cur # 0
       /\ "coordinates" \in DOMAIN defs[cur].definition_data
       /\ Len(defs[cur].definition_data.coordinates) >= 3
    THEN defs[cur].definition_data.coordinates
    ELSE <<>>

\* lines 164-174: the footprints that are not inside the stored polygon
OutsideFootprints(ring, new_footprints) ==
    SelectSeq(new_footprints, LAMBDA fp : ring = <<>> \/ ~Contains(ring, fp))

\* A faulty PersistRoi: a new active row whether or not the camera has one
PersistAlwaysCreate(defs, camera_id, cur, definition_type, data, t) ==
    CreateRoi(defs, camera_id, definition_type, data, t)

\* lines 228-242 (and lines 275-282 of congestion_analysis_tasks.py): overwrite
\* the camera's active row in place, create one only when it has none
PersistRoi(defs, camera_id, cur, definition_type, data, t) ==
    IF cur # 0 THEN OverwriteRoi(defs, cur, data, t)
    ELSE CreateRoi(defs, camera_id, definition_type, data, t)

\* A faulty ConvexHullUpdate: footprints inside the stored polygon are not
\* told apart and the hull is persisted whether it changed or not
ConvexHullUpdateNoInsideCheck(defs, camera_id, new_footprints, t) ==
    LET cur    == FirstActiveRoi(defs, camera_id)
        unique == Range(ExistingRing(defs, cur) \o new_footprints)
        hull   == ConvexHullRing(unique)
    IN  IF camera_id \notin Cameras \/ Cardinality(unique) < 3 \/ Collinear(unique)
        THEN [defs |-> defs, ret |-> "False"]
        ELSE [defs |-> PersistRoi(defs, camera_id, cur, "DYNAMIC_CONVEX_HULL",
                                  [type |-> "DYNAMIC_CONVEX_HULL",
                                   coordinates |-> hull,
                                   area |-> RingArea2(hull) \div 2], t),
              ret |-> "True"]

\* A faulty ConvexHullUpdate: the camera is not looked up
ConvexHullUpdateAnyCamera(defs, camera_id, new_footprints, t) ==
    LET cur    == FirstActiveRoi(defs, camera_id)
        ring   == ExistingRing(defs, cur)
        points == ring \o OutsideFootprints(ring, new_footprints)
        added  == Len(OutsideFootprints(ring, new_footprints)) > 0
        unique == Range(points)
        unchanged == [defs |-> defs, ret |-> "False"]
    IN  IF ~added /\ ring # <<>> THEN unchanged
        ELSE IF Len(points) < 3 THEN unchanged
        ELSE IF Cardinality(unique) < 3 THEN unchanged
        ELSE IF Collinear(unique) THEN unchanged
        ELSE LET hull == ConvexHullRing(unique)
                 data == [type |-> "DYNAMIC_CONVEX_HULL",
                          coordinates |-> hull,
                          area |-> RingArea2(hull) \div 2]
             IN  IF Len(hull) < 3 THEN unchanged
                 ELSE IF ring # <<>> /\ ring = hull THEN unchanged
                 ELSE [defs |-> PersistRoi(defs, camera_id, cur,
                                           "DYNAMIC_CONVEX_HULL", data, t),
                       ret |-> "True"]

ConvexHullUpdate(defs, camera_id, new_footprints, t) ==
    LET cur    == FirstActiveRoi(defs, camera_id)
        ring   == ExistingRing(defs, cur)
        points == ring \o OutsideFootprints(ring, new_footprints)
        added  == Len(OutsideFootprints(ring, new_footprints)) > 0
        unique == Range(points)
        unchanged == [defs |-> defs, ret |-> "False"]
    IN  IF camera_id \notin Cameras THEN unchanged
        ELSE IF ~added /\ ring # <<>> THEN unchanged
        ELSE IF Len(points) < 3 THEN unchanged
        ELSE IF Cardinality(unique) < 3 THEN unchanged
        ELSE IF Collinear(unique) THEN unchanged
        ELSE LET hull == ConvexHullRing(unique)
                 data == [type |-> "DYNAMIC_CONVEX_HULL",
                          coordinates |-> hull,
                          area |-> RingArea2(hull) \div 2]
             IN  IF Len(hull) < 3 THEN unchanged
                 ELSE IF ring # <<>> /\ ring = hull THEN unchanged
                 ELSE [defs |-> PersistRoi(defs, camera_id, cur,
                                           "DYNAMIC_CONVEX_HULL", data, t),
                       ret |-> "True"]

(***************************************************************************)
(* analytics/congestion_analysis_tasks.py: constants, AlphaCache and the   *)
(* point window. Alpha values are counted in hundredths.                   *)
(***************************************************************************)
MAX_ROI_POINTS == 1000
ALPHA_CACHE_SIZE == 100
MIN_POINTS_FOR_ROI == 3
DEFAULT_ALPHA_VALUE == 1

EmptyMap == [k \in {} |-> None]

MapPut(f, k, v) == [x \in DOMAIN f \cup {k} |-> IF x = k THEN v ELSE f[x]]

MapDel(f, k) == [x \in DOMAIN f \ {k} |-> f[x]]

\* deque.remove(x): drops the first occurrence of x
RemoveFirst(s, x) ==
    LET i == CHOOSE j \in DOMAIN s : s[j] = x /\ \A k \in 1..(j - 1) : s[k] # x
    IN  SubSeq(s, 1, i - 1) \o SubSeq(s, i + 1, Len(s))

\* AlphaCache.__init__
NewAlphaCache(size) == [cache |-> EmptyMap, access_order |-> <<>>, max_size |-> size]

\* A faulty get_alpha: a hit does not refresh the key's place in the queue
GetAlphaNoRefresh(c, points_hash) ==
    IF points_hash \in DOMAIN c.cache
    THEN [c |-> c, hit |-> TRUE, raised |-> None, ret |-> c.cache[points_hash]]
    ELSE [c |-> c, hit |-> FALSE, raised |-> None, ret |-> 0]

\* AlphaCache.get_alpha: the cache after the call and what it returned: the
\* cached value (hit), None (not hit), or the ValueError deque.remove raises
\* for a key that is not queued
GetAlpha(c, points_hash) ==
    IF points_hash \in DOMAIN c.cache
    THEN IF points_hash \in Range(c.access_order)
         THEN [c |-> [c EXCEPT !.access_order =
                          Append(RemoveFirst(c.access_order, points_hash), points_hash)],
               hit |-> TRUE, raised |-> None, ret |-> c.cache[points_hash]]
         ELSE [c |-> c, hit |-> FALSE, raised |-> "ValueError", ret |-> 0]
    ELSE [c |-> c, hit |-> FALSE, raised |-> None, ret |-> 0]

\* A faulty set_alpha: inserts without evicting
SetAlphaNoEvict(c, points_hash, alpha_value) ==
    [c |-> [c EXCEPT !.cache = MapPut(c.cache, points_hash, alpha_value),
                     !.access_order = Append(c.access_order, points_hash)],
     ret |-> None]

\* AlphaCache.set_alpha: the cache after the call and None, or the exception
\* raised (popleft of an empty deque, del of a key that is not cached)
SetAlpha(c, points_hash, alpha_value) ==
    IF Cardinality(DOMAIN c.cache) >= c.max_size
    THEN IF c.access_order = <<>>
         THEN [c |-> c, ret |-> "IndexError"]
         ELSE LET oldest == Head(c.access_order)
                  popped == [c EXCEPT !.access_order = Tail(c.access_order)]
              IN  IF oldest \notin DOMAIN c.cache
                  THEN [c |-> popped, ret |-> "KeyError"]
                  ELSE [c |-> [popped EXCEPT
                                 !.cache = MapPut(MapDel(c.cache, oldest),
                                                  points_hash, alpha_value),
                                 !.access_order = Append(popped.access_order,
                                                         points_hash)],
                        ret |-> None]
    ELSE [c |-> [c EXCEPT !.cache = MapPut(c.cache, points_hash, alpha_value),
                          !.access_order = Append(c.access_order, points_hash)],
          ret |-> None]

\* calculate_points_hash: the hash of the sorted tuple of points depends on the
\* set of points only (hash collisions are not modelled)
calculate_points_hash(points) == <<"hash", Range(points)>>

\* A faulty efficient_point_management: the cap keeps the oldest points
PointManagementKeepOldest(existing_points, new_points) ==
    LET total_points == existing_points \o new_points
    IN  IF Len(total_points) <= MAX_ROI_POINTS THEN total_points
        ELSE SubSeq(total_points, 1, MAX_ROI_POINTS)

\* A faulty efficient_point_management: merges without the cap
PointManagementNoCap(existing_points, new_points) == existing_points \o new_points

efficient_point_management(existing_points, new_points) ==
    IF existing_points = <<>> THEN LastN(new_points, MAX_ROI_POINTS)
    ELSE LET total_points == existing_points \o new_points
         IN  IF Len(total_points) <= MAX_ROI_POINTS THEN total_points
             ELSE LastN(total_points, MAX_ROI_POINTS)

(***************************************************************************)
(* The footprints the ROI estimators are called with, and list(set(...)).  *)
(***************************************************************************)
GridSize == 2
BatchSize == 600

Square == <<<<0, 0>>, <<2 * GridSize, 0>>, <<2 * GridSize, 2 * GridSize>>,
            <<0, 2 * GridSize>>>>

\* BatchSize distinct footprints on the line y = 2 * b
Batch(b) == [i \in 1..BatchSize |-> <<2 * i, 2 * b>>]

SmallFootprints ==
    { <<>>,                                       \* no footprint
      <<<<2, 2>>>>,                               \* inside the square
      <<<<4 * GridSize, 4 * GridSize>>>>,         \* outside the square
      <<<<0, 0>>, <<2, 2>>>>,                     \* two points
      <<<<0, 0>>, <<2, 2>>, <<4, 4>>>>,           \* three collinear points
      Square }

\* the square of side 100 with its corner at (10, 10)
Square100 == <<<<10, 10>>, <<110, 10>>, <<110, 110>>, <<10, 110>>>>

\* the footprint lists given to the convex-hull estimator
HullFootprints ==
    SmallFootprints
      \cup { <<<<0, 0>>, <<0, 0>>, <<2, 2>>>>,    \* three points, two distinct
             Square100 }

BatchFootprints == {Batch(1), Batch(2)}

UniverseWidth == BatchSize + 2 * GridSize + 1
UniverseHeight == 2 * GridSize + 1

\* every point the model uses (all have even coordinates), in ascending order
UniverseSeq ==
    [k \in 1..(UniverseWidth * UniverseHeight) |->
        <<2 * ((k - 1) \div UniverseHeight), 2 * ((k - 1) % UniverseHeight)>>]

ReverseSeq(s) == [i \in 1..Len(s) |-> s[Len(s) + 1 - i]]

\* list(set(points)): the distinct points in the iteration order of a Python
\* set, which is any order; the model draws from two of them, ascending and
\* descending
ListOfSet(points) ==
    LET S   == Range(points)
        asc == SelectSeq(UniverseSeq, LAMBDA p : p \in S)
    IN  {asc, ReverseSeq(asc)}

(***************************************************************************)
(* What alphashape may hand back: optimizealpha returns a value or raises, *)
(* alphashape returns a geometry or raises.                                *)
(***************************************************************************)
OptimizeOutcomes == {[raised |-> TRUE, value |-> 0], [raised |-> FALSE, value |-> 2]}

SquarePolygon == [kind |-> "Polygon", exterior |-> Square \o <<Square[1]>>,
                  area |-> RingArea2(Square) \div 2]

TrianglePolygon ==
    LET ring == <<Square[1], Square[2], Square[4]>>
    IN  [kind |-> "Polygon", exterior |-> ring \o <<ring[1]>>,
         area |-> RingArea2(ring) \div 2]

AlphaShapeOutcomes ==
    { [kind |-> "raise"],
      [kind |-> "LineString"],
      SquarePolygon,
      [kind |-> "MultiPolygon", geoms |-> <<TrianglePolygon, SquarePolygon>>,
       area |-> TrianglePolygon.area + SquarePolygon.area] }

Front(s) == SubSeq(s, 1, Len(s) - 1)

\* timezone.datetime.isoformat()
Isoformat(t) == <<"iso", t>>

(***************************************************************************)
(* analytics/congestion_analysis_tasks.py: the alpha-shape estimator.      *)
(***************************************************************************)
\* calculate_alpha_shape_with_cache: the cache after the call, the shape (kind
\* None when alphashape raised) and the alpha value used, or the exception raised
calculate_alpha_shape_with_cache(c, unique_points, optimized, shape) ==
    LET points_hash == calculate_points_hash(unique_points)
        got == GetAlpha(c, points_hash)
        put == SetAlpha(got.c, points_hash, optimized.value)
        res(c2, alpha) == [c |-> c2, raised |-> None,
                           shape |-> IF shape.kind = "raise" THEN [kind |-> None]
                                     ELSE shape,
                           alpha_value |-> alpha]
    IN  IF got.raised # None
        THEN [c |-> got.c, raised |-> got.raised, shape |-> [kind |-> None],
              alpha_value |-> 0]
        ELSE IF got.hit THEN res(got.c, got.ret)
        ELSE IF optimized.raised THEN res(got.c, DEFAULT_ALPHA_VALUE)
        ELSE IF put.ret # None THEN res(put.c, DEFAULT_ALPHA_VALUE)
        ELSE res(put.c, optimized.value)

\* save_points_only: every exception inside is caught and logged
save_points_only(defs, camera_id, cur, unique_points, t) ==
    IF cur # 0
    THEN LET old == defs[cur].definition_data
             current_data ==
                 [k \in DOMAIN old \cup {"roi_defining_points", "last_processed_timestamp"} |->
                     IF k = "roi_defining_points" THEN unique_points
                     ELSE IF k = "last_processed_timestamp" THEN Isoformat(t)
                     ELSE old[k]]
         IN  OverwriteRoi(defs, cur, current_data, t)
    ELSE IF "DYNAMIC_ALPHA_SHAPE_SLIDING" \notin ROIDefinitionType
         THEN defs
         ELSE CreateRoi(defs, camera_id, "DYNAMIC_ALPHA_SHAPE_SLIDING",
                        [type |-> "DYNAMIC_ALPHA_SHAPE_SLIDING",
                         roi_defining_points |-> unique_points,
                         status |-> "points_only",
                         last_processed_timestamp |-> Isoformat(t),
                         note |-> "ROI calculation pending - accumulating points"],
                        t)

\* lines 234-237: the points accumulated in the camera's active definition
ExistingPoints(defs, cur) ==
    IF cur # 0 /\ "roi_defining_points" \in DOMAIN defs[cur].definition_data
    THEN defs[cur].definition_data.roi_defining_points
    ELSE <<>>

\* lines 241: the merged point window of a call
UpdatedPoints(defs, camera_id, new_footprints) ==
    efficient_point_management(
        ExistingPoints(defs, FirstActiveRoi(defs, camera_id)), new_footprints)

\* update_roi_for_camera_service: the table and the cache after the call and
\* the value returned, or the exception that leaves the function
AlphaShapeUpdate(defs, c, camera_id, new_footprints, t, unique_points, optimized, shape) ==
    LET cur == FirstActiveRoi(defs, camera_id)
        calc == calculate_alpha_shape_with_cache(c, unique_points, optimized, shape)
        main == IF calc.shape.kind = "Polygon" THEN calc.shape
                ELSE CHOOSE g \in Range(calc.shape.geoms) :
                        \A h \in Range(calc.shape.geoms) : h.area <= g.area
        data == [type |-> "DYNAMIC_ALPHA_SHAPE_SLIDING",
                 area |-> calc.shape.area,
                 vertices |-> Front(main.exterior),
                 roi_defining_points |-> unique_points,
                 alpha_value |-> calc.alpha_value,
                 last_processed_timestamp |-> Isoformat(t)]
    IN  IF camera_id \notin Cameras
        THEN [defs |-> defs, c |-> c, ret |-> "False"]
        ELSE IF Len(unique_points) < MIN_POINTS_FOR_ROI
        THEN [defs |-> save_points_only(defs, camera_id, cur, unique_points, t),
              c |-> c, ret |-> "False"]
        ELSE IF calc.raised # None
        THEN [defs |-> defs, c |-> calc.c, ret |-> calc.raised]
        ELSE IF calc.shape.kind \in {"Polygon", "MultiPolygon"}
        THEN IF "DYNAMIC_ALPHA_SHAPE_SLIDING" \notin ROIDefinitionType
             THEN [defs |-> defs, c |-> calc.c, ret |-> "AttributeError"]
             ELSE [defs |-> PersistRoi(defs, camera_id, cur,
                                       "DYNAMIC_ALPHA_SHAPE_SLIDING", data, t),
                   c |-> calc.c, ret |-> "True"]
        ELSE [defs |-> save_points_only(defs, camera_id, cur, unique_points, t),
              c |-> calc.c, ret |-> "False"]

(***************************************************************************)
(* The ROI estimators as actions. Each call is one step: tasks.py wraps    *)
(* its estimator in transaction.atomic, and the single-writer-per-camera   *)
(* contract keeps calls for one camera from overlapping. The module-level  *)
(* alpha_cache is the cache the alpha-shape estimator uses.                *)
(***************************************************************************)
TheCache == [cache |-> cache, access_order |-> access_order, max_size |-> max_size]

CameraIds == Cameras \cup {NumCameras + 1}

\* analytics.tasks.update_roi_for_camera_service(camera_id, new_footprints)
ConvexHullCall(camera_id, new_footprints) ==
    /\ now < MaxRoiCalls
    /\ LET r == ConvexHullUpdate(roiDefs, camera_id, new_footprints, now + 1)
       IN  /\ roiDefs' = r.defs
           /\ roiRet' = [fn |-> "tasks", camera |-> camera_id, ret |-> r.ret,
                         new_footprints |-> new_footprints]
    /\ now' = now + 1
    /\ UNCHANGED <<call, pipeVars, cacheVars>>

\* analytics.congestion_analysis_tasks.update_roi_for_camera_service(camera_id,
\* new_footprints, current_task_start_time), with what the set iteration order,
\* optimizealpha and alphashape turn out to be
AlphaShapeCall(camera_id, new_footprints, unique_points, optimized, shape) ==
    /\ now < MaxRoiCalls
    /\ LET r == AlphaShapeUpdate(roiDefs, TheCache, camera_id, new_footprints,
                                 now + 1, unique_points, optimized, shape)
       IN  /\ roiDefs' = r.defs
           /\ roiRet' = [fn |-> "congestion_analysis_tasks", camera |-> camera_id,
                         ret |-> r.ret, new_footprints |-> new_footprints,
                         unique_points |-> unique_points,
                         shape |-> IF /\ camera_id \in Cameras
                                      /\ Len(unique_points) >= MIN_POINTS_FOR_ROI
                                   THEN shape.kind ELSE "not called"]
           /\ cache' = r.c.cache
           /\ access_order' = r.c.access_order
    /\ now' = now + 1
    /\ UNCHANGED <<call, pipeVars, max_size, cacheRet, hist>>

AnyOptimized == CHOOSE o \in OptimizeOutcomes : TRUE
AnyShape == CHOOSE sh \in AlphaShapeOutcomes : TRUE

\* the calls, with footprints for the convex-hull estimator drawn from H and
\* for the alpha-shape estimator from F; the outcomes of the library are drawn
\* only where the call reaches the library
RoiCalls(H, F) ==
    \/ \E camera_id \in CameraIds, new_footprints \in H :
          ConvexHullCall(camera_id, new_footprints)
    \/ \E camera_id \in CameraIds, new_footprints \in F :
          \E unique_points \in ListOfSet(UpdatedPoints(roiDefs, camera_id, new_footprints)),
              optimized \in OptimizeOutcomes, shape \in AlphaShapeOutcomes :
             /\ \/ camera_id \in Cameras /\ Len(unique_points) >= MIN_POINTS_FOR_ROI
                \/ optimized = AnyOptimized /\ shape = AnyShape
             /\ AlphaShapeCall(camera_id, new_footprints, unique_points,
                               optimized, shape)

PipeIdle ==
    /\ snapshots = <<>>
    /\ detected = <<>>
    /\ events = <<>>
    /\ queue = <<>>
    /\ runs = <<>>
    /\ nruns = 0

CacheModuleLevel ==
    /\ cache = EmptyMap
    /\ access_order = <<>>
    /\ max_size = ALPHA_CACHE_SIZE
    /\ cacheRet = [op |-> "none"]
    /\ hist = <<>>

RoiInit ==
    /\ roiDefs = <<>>
    /\ roiRet = [fn |-> "none", camera |-> 0, ret |-> None]
    /\ now = 0
    /\ call = NoCall
    /\ PipeIdle
    /\ CacheModuleLevel

RoiNext == RoiCalls(HullFootprints, SmallFootprints)

SpecRoi == RoiInit /\ [][RoiNext]_vars

WindowNext == RoiCalls({Square}, BatchFootprints \cup {<<>>})

SpecWindow == RoiInit /\ [][WindowNext]_vars

(***************************************************************************)
(* ROI estimators: properties                                              *)
(***************************************************************************)
\* C7: after any sequence of calls of the ROI estimators, made one at a time,
\* every camera has at most one active ROIDefinition row.
AtMostOneActiveRoi ==
    \A camera_id \in CameraIds : Cardinality(ActiveRoiIds(roiDefs, camera_id)) <= 1

\* a camera's only active row has been overwritten in place after its creation
OverwrittenInPlace ==
    \E camera_id \in Cameras :
        /\ Cardinality(ActiveRoiIds(roiDefs, camera_id)) = 1
        /\ LET cur == FirstActiveRoi(roiDefs, camera_id)
           IN  roiDefs[cur].updated_at > roiDefs[cur].created_at

\* the point lists persisted in the table
PersistedPointLists ==
    {roiDefs[i].definition_data.roi_defining_points :
        i \in {j \in DOMAIN roiDefs :
                 "roi_defining_points" \in DOMAIN roiDefs[j].definition_data}}

\* C8: a persisted roi_defining_points list never has more than MAX_ROI_POINTS
\* points.
PointsWithinMax ==
    \A points \in PersistedPointLists : Len(points) <= MAX_ROI_POINTS

\* a call whose merged input was longer than the window has persisted a full
\* window
FullWindowPersisted ==
    /\ roiRet.fn = "congestion_analysis_tasks"
    /\ \E points \in PersistedPointLists :
         /\ Len(points) = MAX_ROI_POINTS
         /\ Range(Batch(2)) \subseteq Range(points)
         /\ ~(Range(Batch(1)) \subseteq Range(points))

(***************************************************************************)
(* AlphaCache on its own: get_alpha and set_alpha called in any order on   *)
(* a cache built with a small max_size. hist records the calls and what    *)
(* they returned. A set_alpha stores the number of the call, so that every *)
(* stored value is different.                                              *)
(***************************************************************************)
CacheKeys == 1..MaxCacheKeys

\* alpha_cache.get_alpha(points_hash)
GetCall(points_hash) ==
    /\ Len(hist) < MaxCacheOps
    /\ LET r == GetAlpha(TheCache, points_hash)
           e == [op |-> "get_alpha", key |-> points_hash, value |-> 0,
                 hit |-> r.hit, raised |-> r.raised, ret |-> r.ret]
       IN  /\ cache' = r.c.cache
           /\ access_order' = r.c.access_order
           /\ cacheRet' = e
           /\ hist' = Append(hist, e)
    /\ UNCHANGED <<call, pipeVars, roiVars, max_size>>

\* alpha_cache.set_alpha(points_hash, alpha_value)
SetCall(points_hash) ==
    /\ Len(hist) < MaxCacheOps
    /\ LET alpha_value == Len(hist) + 1
           r == SetAlpha(TheCache, points_hash, alpha_value)
           e == [op |-> "set_alpha", key |-> points_hash, value |-> alpha_value,
                 hit |-> FALSE, raised |-> r.ret, ret |-> 0]
       IN  /\ cache' = r.c.cache
           /\ access_order' = r.c.access_order
           /\ cacheRet' = e
           /\ hist' = Append(hist, e)
    /\ UNCHANGED <<call, pipeVars, roiVars, max_size>>

CacheInit ==
    /\ cache = EmptyMap
    /\ access_order = <<>>
    /\ max_size \in 1..MaxCacheSize
    /\ cacheRet = [op |-> "none"]
    /\ hist = <<>>
    /\ roiDefs = <<>>
    /\ roiRet = [fn |-> "none", camera |-> 0, ret |-> None]
    /\ now = 0
    /\ call = NoCall
    /\ PipeIdle

CacheNext ==
    \E points_hash \in CacheKeys :
        \/ GetCall(points_hash)
        \/ SetCall(points_hash)

SpecCache == CacheInit /\ [][CacheNext]_vars

\* C9: a cache built with max_size >= 1 never holds more than max_size entries.
CacheWithinMaxSize ==
    max_size >= 1 => Cardinality(DOMAIN cache) <= max_size

\* a set_alpha on a full cache has evicted an entry to make room
EvictedToMakeRoom ==
    /\ cacheRet.op = "set_alpha"
    /\ cacheRet.raised = None
    /\ Cardinality(DOMAIN cache) = max_size
    /\ cacheRet.key \in DOMAIN cache
    /\ \E i \in DOMAIN hist :
         /\ hist[i].op = "set_alpha"
         /\ hist[i].raised = None
         /\ hist[i].key \notin DOMAIN cache

(***************************************************************************)
(* The reference: a strict least-recently-used cache kept as a map from    *)
(* key to value and time of last use. A hit or an insertion is a use; an   *)
(* insertion into a full cache first drops the key whose last use is the   *)
(* oldest. disciplined is FALSE once a key was set while cached.           *)
(***************************************************************************)
RefEmpty == [store |-> EmptyMap, rets |-> <<>>, disciplined |-> TRUE]

RefLeastRecent(store) ==
    CHOOSE k \in DOMAIN store : \A j \in DOMAIN store : store[k].used <= store[j].used

RefStep(r, e, i, size) ==
    IF e.op = "get_alpha"
    THEN IF e.key \in DOMAIN r.store
         THEN [r EXCEPT !.store[e.key].used = i,
                        !.rets = Append(@, [hit |-> TRUE, ret |-> r.store[e.key].value])]
         ELSE [r EXCEPT !.rets = Append(@, [hit |-> FALSE, ret |-> 0])]
    ELSE LET room == IF Cardinality(DOMAIN r.store) >= size
                     THEN MapDel(r.store, RefLeastRecent(r.store))
                     ELSE r.store
         IN  [store |-> MapPut(room, e.key, [value |-> e.value, used |-> i]),
              rets |-> Append(r.rets, [hit |-> FALSE, ret |-> 0]),
              disciplined |-> r.disciplined /\ e.key \notin DOMAIN r.store]

RECURSIVE RefRun(_, _)
RefRun(h, size) ==
    IF h = <<>> THEN RefEmpty
    ELSE RefStep(RefRun(Front(h), size), h[Len(h)], Len(h), size)

\* C10: as long as set_alpha is called only for keys that are not cached, the
\* cache holds the keys and values of the reference strict LRU, queues them
\* from least to most recently used, and every call returned what the
\* reference returns, without an exception.
MatchesStrictLru ==
    LET ref == RefRun(hist, max_size)
    IN  ref.disciplined =>
          /\ DOMAIN cache = DOMAIN ref.store
          /\ \A k \in DOMAIN cache : cache[k] = ref.store[k].value
          /\ Len(access_order) = Cardinality(DOMAIN cache)
          /\ Range(access_order) = DOMAIN cache
          /\ \A i, j \in DOMAIN access_order :
               i < j => ref.store[access_order[i]].used < ref.store[access_order[j]].used
          /\ \A i \in DOMAIN hist :
               /\ hist[i].raised = None
               /\ hist[i].hit = ref.rets[i].hit
               /\ hist[i].ret = ref.rets[i].ret

\* under the discipline, a hit has refreshed a key and a later set_alpha has
\* evicted a key that was inserted after the refreshed one
RefreshedThenEvicted ==
    /\ RefRun(hist, max_size).disciplined
    /\ \E i, j, k \in DOMAIN hist :
         /\ i < j /\ j < k
         /\ hist[j].op = "get_alpha" /\ hist[j].hit
         /\ hist[k].op = "set_alpha"
         /\ hist[j].key \in DOMAIN cache
         /\ hist[i].op = "set_alpha"
         /\ hist[i].key \notin DOMAIN cache
         /\ \E h \in 1..(i - 1) : hist[h].op = "set_alpha" /\ hist[h].key = hist[j].key
         /\ \A h \in (i + 1)..Len(hist) : hist[h].key # hist[i].key

(***************************************************************************)
(* analytics/services.py: the scorer's arithmetic. R is 0.05 = 1/20 and    *)
(* the thresholds are tenths, so a raw value is kept as the fraction       *)
(* <<numerator, denominator>> and compared by cross-multiplication.        *)
(***************************************************************************)
R_RATIO_DEN == 20
ThresholdTenths == [LOW |-> 1, MEDIUM |-> 3, HIGH |-> 6]

Max(a, b) == IF a >= b THEN a ELSE b

\* calculate_total_footprint_area, times R_RATIO_DEN:
\* width * max(1, height * R) summed over the persons with a positive box
calculate_total_footprint_area(detected_objects) ==
    SumSeq([i \in DOMAIN detected_objects |->
              LET obj == detected_objects[i]
              IN  IF obj.class_label = "person" /\ obj.bbox_width > 0 /\ obj.bbox_height > 0
                  THEN obj.bbox_width * Max(R_RATIO_DEN, obj.bbox_height)
                  ELSE 0])

\* raw < threshold, for raw = <<n, d>> with d > 0
RawBelow(raw, label) == raw[1] * 10 < ThresholdTenths[label] * raw[2]

\* A faulty determine_congestion_level: the HIGH threshold is tested before
\* the MEDIUM threshold
DetermineLevelWrongOrder(congestion_value_raw) ==
    IF RawBelow(congestion_value_raw, LOW) THEN LOW
    ELSE IF RawBelow(congestion_value_raw, HIGH) THEN HIGH
    ELSE IF RawBelow(congestion_value_raw, MEDIUM) THEN MEDIUM
    ELSE VERY_HIGH

determine_congestion_level(congestion_value_raw) ==
    IF RawBelow(congestion_value_raw, LOW) THEN LOW
    ELSE IF RawBelow(congestion_value_raw, MEDIUM) THEN MEDIUM
    ELSE IF RawBelow(congestion_value_raw, HIGH) THEN HIGH
    ELSE VERY_HIGH

\* get_active_roi_for_camera: the definition_data of the active row updated
\* last (the lowest id among rows updated at the same time), 0 when none
LatestActiveRoi(defs, camera_id) ==
    LET ids == ActiveRoiIds(defs, camera_id)
        latest == {i \in ids : \A j \in ids : defs[j].updated_at <= defs[i].updated_at}
    IN  IF ids = {} THEN 0 ELSE CHOOSE i \in latest : \A j \in latest : i <= j

\* A faulty ValidRoiArea: a definition without an area counts as area 1
ValidRoiAreaDefaultsToOne(defs, camera_id) ==
    LET cur == LatestActiveRoi(defs, camera_id)
    IN  IF cur = 0 THEN 0
        ELSE IF "area" \notin DOMAIN defs[cur].definition_data THEN 1
        ELSE IF defs[cur].definition_data.area > 0 THEN defs[cur].definition_data.area
        ELSE 0

\* get_active_roi_for_camera, lines 36-54: the definition_data of the camera's
\* latest active row, None when there is no row or the data is empty
get_active_roi_for_camera(defs, camera_id) ==
    LET cur == LatestActiveRoi(defs, camera_id)
    IN  IF cur # 0 /\ DOMAIN defs[cur].definition_data # {}
        THEN Value(defs[cur].definition_data)
        ELSE NULL

\* lines 149-154: the area of the camera's ROI, 0 when the scorer rejects it
ValidRoiArea(defs, camera_id) ==
    LET cur == LatestActiveRoi(defs, camera_id)
    IN  IF /\ cur # 0
           /\ "area" \in DOMAIN defs[cur].definition_data
           /\ defs[cur].definition_data.area > 0
        THEN defs[cur].definition_data.area
        ELSE 0

(***************************************************************************)
(* The pipeline. A caller (the cluster's worker, or code that calls the    *)
(* function directly) executes one invocation at a time; invocations of    *)
(* different callers interleave statement by statement. Neither function   *)
(* checks who calls it or how often, and the broker delivers a task again  *)
(* when its run failed, so any snapshot id may be passed at any time.      *)
(***************************************************************************)
Callers == 1..NumCallers
SnapshotIds == 1..MaxSnapshots

IdleRun ==
    [fn |-> "idle", id |-> 0, pc |-> "done", sid |-> 0, ai |-> None, cong |-> None,
     dets |-> <<>>, k |-> 0, area |-> 0, persons |-> <<>>, ret |-> None,
     seen_ai |-> None, seen_cong |-> None, enq |-> 0, created |-> 0,
     roi |-> NULL]

\* what detect_objects may return for an image
Person == [label |-> "person", bbox_width |-> 2, bbox_height |-> 40]
Car == [label |-> "car", bbox_width |-> 4, bbox_height |-> 4]
DetectionOutcomes == {<<>>, <<Person>>, <<Person, Car>>}

GroupKey(prefix, camera_id) == <<prefix, camera_id>>

\* A faulty async_task: the task is queued twice
AsyncTaskTwice(q, func, snapshot_id, group) ==
    q \o << [func |-> func, arg |-> snapshot_id, group |-> group],
            [func |-> func, arg |-> snapshot_id, group |-> group] >>

\* async_task(func, snapshot_id, q_options={'group': ...})
async_task(q, func, snapshot_id, group) ==
    Append(q, [func |-> func, arg |-> snapshot_id, group |-> group])

Free(w) == runs[w].pc = "done"

\* capture.py: a successful capture creates the row and enqueues the AI stage
Capture(camera_id) ==
    /\ Len(snapshots) < MaxSnapshots
    /\ snapshots' = Append(snapshots, [camera |-> camera_id,
                                       processing_status_ai |-> PENDING,
                                       processing_status_congestion |-> PENDING])
    /\ queue' = async_task(queue, "analytics.services.analyze_snapshot_task",
                           Len(snapshots) + 1,
                           GroupKey("snapshot-analysis", camera_id))
    /\ UNCHANGED <<call, detected, events, runs, nruns, roiVars, cacheVars>>

\* snapshot.save(): every field of the row is written from the caller's copy
SaveAll(rows, sid, ai, cong) ==
    [rows EXCEPT ![sid].processing_status_ai = ai,
                 ![sid].processing_status_congestion = cong]

\* analyze_snapshot_task, lines 216-220: get the row (DoesNotExist is caught
\* with snapshot = None and raised again), mark the AI stage PROCESSING
AnalyzeStart(w, snapshot_id) ==
    /\ Free(w)
    /\ nruns < MaxRuns
    /\ nruns' = nruns + 1
    /\ IF snapshot_id \in DOMAIN snapshots
       THEN /\ snapshots' = [snapshots EXCEPT ![snapshot_id].processing_status_ai = PROCESSING]
            /\ runs' = [runs EXCEPT ![w] =
                 [IdleRun EXCEPT !.fn = "analyze", !.id = nruns + 1, !.pc = "detect", !.sid = snapshot_id,
                     !.ai = PROCESSING,
                     !.cong = snapshots[snapshot_id].processing_status_congestion,
                     !.seen_ai = snapshots[snapshot_id].processing_status_ai,
                     !.seen_cong = snapshots[snapshot_id].processing_status_congestion]]
       ELSE /\ snapshots' = snapshots
            /\ runs' = [runs EXCEPT ![w] =
                 [IdleRun EXCEPT !.fn = "analyze", !.id = nruns + 1, !.sid = snapshot_id,
                                 !.ret = "raised"]]
    /\ UNCHANGED <<call, detected, events, queue, roiVars, cacheVars>>

\* line 230: detect_objects returns the detections
AnalyzeDetect(w, detections) ==
    /\ runs[w].fn = "analyze" /\ runs[w].pc = "detect"
    /\ runs' = [runs EXCEPT ![w].dets = detections,
                            ![w].pc = IF detections = <<>> THEN "render" ELSE "persist"]
    /\ UNCHANGED <<call, snapshots, detected, events, queue, nruns, roiVars, cacheVars>>

\* lines 235-249: one DetectedObjects row per detection, each its own commit
AnalyzePersist(w) ==
    /\ runs[w].fn = "analyze" /\ runs[w].pc = "persist"
    /\ LET det == runs[w].dets[runs[w].k + 1]
       IN  detected' = Append(detected, [snapshot |-> runs[w].sid,
                                         class_label |-> det.label,
                                         bbox_width |-> det.bbox_width,
                                         bbox_height |-> det.bbox_height])
    /\ runs' = [runs EXCEPT ![w].k = @ + 1,
                            ![w].pc = IF runs[w].k + 1 = Len(runs[w].dets)
                                      THEN "render" ELSE "persist"]
    /\ UNCHANGED <<call, snapshots, events, queue, nruns, roiVars, cacheVars>>

\* lines 253-272: the annotated image is written
AnalyzeRender(w) ==
    /\ runs[w].fn = "analyze" /\ runs[w].pc = "render"
    /\ runs' = [runs EXCEPT ![w].pc = "save"]
    /\ UNCHANGED <<call, snapshots, detected, events, queue, nruns, roiVars, cacheVars>>

\* lines 275-279: processing_status_ai = COMPLETED; snapshot.save()
AnalyzeSave(w) ==
    /\ runs[w].fn = "analyze" /\ runs[w].pc = "save"
    /\ snapshots' = SaveAll(snapshots, runs[w].sid, COMPLETED, runs[w].cong)
    /\ runs' = [runs EXCEPT ![w].ai = COMPLETED, ![w].pc = "enqueue"]
    /\ UNCHANGED <<call, detected, events, queue, nruns, roiVars, cacheVars>>

\* lines 284-288: the congestion stage is handed to the queue; the run returns
AnalyzeEnqueue(w) ==
    /\ runs[w].fn = "analyze" /\ runs[w].pc = "enqueue"
    /\ queue' = async_task(queue, "analytics.tasks.calculate_congestion_for_snapshot_task",
                           runs[w].sid,
                           GroupKey("congestion-analysis", snapshots[runs[w].sid].camera))
    /\ runs' = [runs EXCEPT ![w].enq = @ + 1, ![w].pc = "done", ![w].ret = "returned"]
    /\ UNCHANGED <<call, snapshots, detected, events, nruns, roiVars, cacheVars>>

\* a statement inside the try block raises: detect_objects, a row insert, the
\* image code or async_task
AnalyzeRaise(w) ==
    /\ runs[w].fn = "analyze" /\ runs[w].pc \in {"detect", "persist", "render", "enqueue"}
    /\ runs' = [runs EXCEPT ![w].pc = "except"]
    /\ UNCHANGED <<call, snapshots, detected, events, queue, nruns, roiVars, cacheVars>>

\* lines 296-301: processing_status_ai = FAILED; snapshot.save(); raise
AnalyzeExcept(w) ==
    /\ runs[w].fn = "analyze" /\ runs[w].pc = "except"
    /\ snapshots' = SaveAll(snapshots, runs[w].sid, FAILED, runs[w].cong)
    /\ runs' = [runs EXCEPT ![w].ai = FAILED, ![w].pc = "done", ![w].ret = "raised"]
    /\ UNCHANGED <<call, detected, events, queue, nruns, roiVars, cacheVars>>

\* A faulty reading of the statuses: the COMPLETED check of lines 135-137 is
\* missing
PathAfterReadNoCheck(ai, cong) ==
    IF ai # COMPLETED THEN "fail" ELSE "query"

\* lines 135-142: what the scorer does with the statuses it read
PathAfterRead(ai, cong) ==
    IF cong = COMPLETED THEN "done"
    ELSE IF ai # COMPLETED THEN "fail"
    ELSE "query"

\* calculate_and_save_congestion_event, lines 128-142: get the row and look at
\* the two statuses. The function is transaction.atomic: what it writes shows
\* when it returns.
ScorerStart(w, snapshot_id) ==
    /\ Free(w)
    /\ nruns < MaxRuns
    /\ nruns' = nruns + 1
    /\ runs' = [runs EXCEPT ![w] =
         IF snapshot_id \notin DOMAIN snapshots
         THEN [IdleRun EXCEPT !.fn = "scorer", !.id = nruns + 1, !.sid = snapshot_id]
         ELSE LET row == snapshots[snapshot_id]
              IN  [IdleRun EXCEPT !.fn = "scorer", !.id = nruns + 1, !.sid = snapshot_id,
                      !.pc = PathAfterRead(row.processing_status_ai,
                                           row.processing_status_congestion),
                      !.ai = row.processing_status_ai,
                      !.cong = row.processing_status_congestion,
                      !.seen_ai = row.processing_status_ai,
                      !.seen_cong = row.processing_status_congestion]]
    /\ UNCHANGED <<call, snapshots, detected, events, queue, roiVars, cacheVars>>

\* lines 145-154: the persons detected in the snapshot and the camera's ROI
ScorerQuery(w) ==
    /\ runs[w].fn = "scorer" /\ runs[w].pc = "query"
    /\ LET area == ValidRoiArea(roiDefs, snapshots[runs[w].sid].camera)
       IN  runs' = [runs EXCEPT
             ![w].persons = SelectSeq(detected, LAMBDA obj :
                               obj.snapshot = runs[w].sid /\ obj.class_label = "person"),
             ![w].area = area,
             ![w].roi = get_active_roi_for_camera(roiDefs,
                                                  snapshots[runs[w].sid].camera),
             ![w].pc = IF area = 0 THEN "fail" ELSE "create"]
    /\ UNCHANGED <<call, snapshots, detected, events, queue, nruns, roiVars, cacheVars>>

\* lines 139-142 and 151-154: processing_status_congestion = FAILED;
\* snapshot.save(); return None
ScorerFail(w) ==
    /\ runs[w].fn = "scorer" /\ runs[w].pc = "fail"
    /\ snapshots' = SaveAll(snapshots, runs[w].sid, runs[w].ai, FAILED)
    /\ runs' = [runs EXCEPT ![w].cong = FAILED, ![w].pc = "done"]
    /\ UNCHANGED <<call, detected, events, queue, nruns, roiVars, cacheVars>>

\* A faulty CongestionEvent: the alert is raised for VERY_HIGH only
CongestionEventAlertVeryHighOnly(snapshot_id, camera_id, persons, area) ==
    LET raw == <<calculate_total_footprint_area(persons), R_RATIO_DEN * area>>
        level == determine_congestion_level(raw)
    IN  [camera |-> camera_id, snapshot |-> snapshot_id,
         person_count |-> Len(persons),
         estimated_roi_pixel_area |-> area,
         congestion_value_raw |-> raw,
         congestion_level |-> level,
         alert_triggered |-> level = VERY_HIGH,
         is_acknowledged |-> FALSE]

\* the CongestionEvents row of lines 156-190
CongestionEvent(snapshot_id, camera_id, persons, area) ==
    LET raw == <<calculate_total_footprint_area(persons), R_RATIO_DEN * area>>
        level == determine_congestion_level(raw)
    IN  [camera |-> camera_id, snapshot |-> snapshot_id,
         person_count |-> Len(persons),
         estimated_roi_pixel_area |-> area,
         congestion_value_raw |-> raw,
         congestion_level |-> level,
         alert_triggered |-> level \in {HIGH, VERY_HIGH},
         is_acknowledged |-> FALSE]

\* lines 178-198: create the event, processing_status_congestion = COMPLETED,
\* save(update_fields=['processing_status_congestion']), return the event
ScorerCreate(w) ==
    /\ runs[w].fn = "scorer" /\ runs[w].pc = "create"
    /\ events' = Append(events, CongestionEvent(runs[w].sid,
                                                snapshots[runs[w].sid].camera,
                                                runs[w].persons, runs[w].area))
    /\ snapshots' = [snapshots EXCEPT
                       ![runs[w].sid].processing_status_congestion = COMPLETED]
    /\ runs' = [runs EXCEPT ![w].cong = COMPLETED, ![w].created = @ + 1,
                            ![w].pc = "done", ![w].ret = "event"]
    /\ UNCHANGED <<call, detected, queue, nruns, roiVars, cacheVars>>

\* the ROI table the pipeline runs against: camera 1 has a convex-hull ROI,
\* the other cameras have none
InitialRoiTable == ConvexHullUpdate(<<>>, 1, Square, 0).defs

Init ==
    /\ snapshots = <<>>
    /\ detected = <<>>
    /\ events = <<>>
    /\ queue = <<>>
    /\ runs = [w \in Callers |-> IdleRun]
    /\ nruns = 0
    /\ roiDefs = InitialRoiTable
    /\ roiRet = [fn |-> "none", camera |-> 0, ret |-> None]
    /\ now = 0
    /\ call = NoCall
    /\ CacheModuleLevel

Next ==
    \/ \E camera_id \in Cameras : Capture(camera_id)
    \/ \E w \in Callers, snapshot_id \in SnapshotIds : AnalyzeStart(w, snapshot_id)
    \/ \E w \in Callers, detections \in DetectionOutcomes : AnalyzeDetect(w, detections)
    \/ \E w \in Callers : AnalyzePersist(w)
    \/ \E w \in Callers : AnalyzeRender(w)
    \/ \E w \in Callers : AnalyzeSave(w)
    \/ \E w \in Callers : AnalyzeEnqueue(w)
    \/ \E w \in Callers : AnalyzeRaise(w)
    \/ \E w \in Callers : AnalyzeExcept(w)
    \/ \E w \in Callers, snapshot_id \in SnapshotIds : ScorerStart(w, snapshot_id)
    \/ \E w \in Callers : ScorerQuery(w)
    \/ \E w \in Callers : ScorerFail(w)
    \/ \E w \in Callers : ScorerCreate(w)

Spec == Init /\ [][Next]_vars

(***************************************************************************)
(* Pipeline: properties                                                    *)
(***************************************************************************)
\* caller w's invocation of fn returns in this step
Returns(w, fn) ==
    /\ runs'[w].fn = fn
    /\ runs'[w].pc = "done"
    /\ runs'[w].id # runs[w].id \/ runs[w].pc # "done"

EventsOf(evs, snapshot_id) == {i \in DOMAIN evs : evs[i].snapshot = snapshot_id}

\* C1: in every reachable state a snapshot whose congestion status is COMPLETED
\* has AI status COMPLETED.
CongestionCompletedOnlyAfterAi ==
    \A sid \in DOMAIN snapshots :
        snapshots[sid].processing_status_congestion = COMPLETED
            => snapshots[sid].processing_status_ai = COMPLETED

\* C2: a call of the scorer on an existing snapshot whose AI status is not
\* COMPLETED returns None, creates no event and leaves the congestion status
\* FAILED.
ScorerFailsWithoutAi ==
    [][\A w \in Callers :
         (/\ Returns(w, "scorer")
          /\ runs'[w].sid \in DOMAIN snapshots
          /\ runs'[w].seen_ai # COMPLETED)
         => /\ runs'[w].ret = None
            /\ events' = events
            /\ snapshots'[runs'[w].sid].processing_status_congestion = FAILED]_vars

\* C3: a call of the scorer on a snapshot whose congestion status is already
\* COMPLETED returns None, changes no status and creates no event.
ScoringIdempotent ==
    [][\A w \in Callers :
         (/\ Returns(w, "scorer")
          /\ runs'[w].seen_cong = COMPLETED)
         => /\ runs'[w].ret = None
            /\ runs'[w].created = 0
            /\ snapshots' = snapshots
            /\ events' = events]_vars

\* a second call on a scored snapshot has returned None and the snapshot still
\* has its one event
ScoredTwice ==
    \E w \in Callers :
        /\ runs[w].fn = "scorer" /\ runs[w].pc = "done"
        /\ runs[w].seen_cong = COMPLETED
        /\ runs[w].ret = None
        /\ Cardinality(EventsOf(events, runs[w].sid)) = 1
        /\ snapshots[runs[w].sid].processing_status_congestion = COMPLETED

\* C4: every change of an AI status is PENDING -> PROCESSING,
\* PROCESSING -> COMPLETED or PROCESSING -> FAILED.
AiTransitionsLegal ==
    [][\A sid \in DOMAIN snapshots :
         LET old == snapshots[sid].processing_status_ai
             new == snapshots'[sid].processing_status_ai
         IN  old # new => <<old, new>> \in {<<PENDING, PROCESSING>>,
                                            <<PROCESSING, COMPLETED>>,
                                            <<PROCESSING, FAILED>>}]_vars

\* C5: every change of a congestion status is PENDING -> COMPLETED or
\* PENDING -> FAILED, and the status is never PROCESSING.
CongestionTransitionsLegal ==
    [][\A sid \in DOMAIN snapshots :
         LET old == snapshots[sid].processing_status_congestion
             new == snapshots'[sid].processing_status_congestion
         IN  /\ new # PROCESSING
             /\ old # new => <<old, new>> \in {<<PENDING, COMPLETED>>,
                                               <<PENDING, FAILED>>}]_vars

CongestionTask(snapshot_id, camera_id) ==
    [func |-> "analytics.tasks.calculate_congestion_for_snapshot_task",
     arg |-> snapshot_id, group |-> <<"congestion-analysis", camera_id>>]

\* C6: the queue grows by a congestion task only as the last statement of a run
\* of analyze_snapshot_task that has persisted COMPLETED, by exactly one task
\* for the run's snapshot with the group key of the snapshot's camera; a run
\* that returns has enqueued one task, a run that raises has enqueued none.
EnqueuedOncePerCompletedRun ==
    [][/\ (queue' # queue /\ Len(snapshots') = Len(snapshots))
          => \E w \in Callers :
               /\ runs[w].fn = "analyze" /\ runs[w].pc = "enqueue"
               /\ runs[w].ai = COMPLETED /\ runs[w].enq = 0
               /\ Returns(w, "analyze")
               /\ runs'[w].ret = "returned"
               /\ queue' = Append(queue, CongestionTask(runs[w].sid,
                                                        snapshots[runs[w].sid].camera))
       /\ \A w \in Callers :
            Returns(w, "analyze")
            => /\ runs'[w].ret = "returned" => runs'[w].enq = 1 /\ runs'[w].ai = COMPLETED
               /\ runs'[w].ret = "raised" => runs'[w].enq = 0
               /\ runs'[w].ai = FAILED => runs'[w].enq = 0
               /\ runs'[w].enq = 1 => queue' # queue]_vars

\* a run has returned with the AI status COMPLETED and its congestion task is
\* the last in the queue
CompletedRunEnqueued ==
    \E w \in Callers :
        /\ runs[w].fn = "analyze" /\ runs[w].pc = "done" /\ runs[w].ret = "returned"
        /\ snapshots[runs[w].sid].processing_status_ai = COMPLETED
        /\ queue # <<>>
        /\ queue[Len(queue)] = CongestionTask(runs[w].sid, snapshots[runs[w].sid].camera)
        /\ Cardinality({i \in DOMAIN queue :
              queue[i].func = "analytics.tasks.calculate_congestion_for_snapshot_task"}) = 1

(***************************************************************************)
(* efficient_point_management on its own: the arguments are lists whose    *)
(* lengths lie around 0, half the window and the whole window.             *)
(***************************************************************************)
MergeSlack == 2

MergeLengths ==
    (0..MergeSlack)
    \cup {(MAX_ROI_POINTS \div 2) + d - MergeSlack : d \in 0..(2 * MergeSlack)}
    \cup {MAX_ROI_POINTS + d - MergeSlack : d \in 0..(2 * MergeSlack)}

\* n points of row y, all different
PointRow(n, y) == [i \in 1..n |-> <<2 * i, y>>]

MergeInit ==
    /\ \E a \in MergeLengths, b \in MergeLengths :
         call = [fn |-> "efficient_point_management",
                 existing_points |-> PointRow(a, 0),
                 new_points |-> PointRow(b, 2),
                 returned |-> FALSE,
                 ret |-> <<>>]
    /\ roiDefs = <<>>
    /\ roiRet = [fn |-> "none", camera |-> 0, ret |-> None]
    /\ now = 0
    /\ PipeIdle
    /\ CacheModuleLevel

\* efficient_point_management(existing_points, new_points)
MergeCall ==
    /\ call.fn = "efficient_point_management"
    /\ ~call.returned
    /\ call' = [call EXCEPT
                  !.ret = efficient_point_management(call.existing_points,
                                                     call.new_points),
                  !.returned = TRUE]
    /\ UNCHANGED <<pipeVars, roiVars, cacheVars>>

MergeNext == MergeCall

SpecMerge == MergeInit /\ [][MergeNext]_vars

\* C11: efficient_point_management(existing, new) is the last
\* min(MAX_ROI_POINTS, |existing| + |new|) elements of existing ++ new, in the
\* same order.
MergeKeepsNewest ==
    call.fn = "efficient_point_management" /\ call.returned
    => LET all == call.existing_points \o call.new_points
           n == IF Len(all) < MAX_ROI_POINTS THEN Len(all) ELSE MAX_ROI_POINTS
       IN  /\ Len(call.ret) = n
           /\ \A i \in 1..n : call.ret[i] = all[Len(all) - n + i]

\* the call has dropped the oldest of the existing points and kept some
MergeDroppedOldest ==
    /\ call.fn = "efficient_point_management" /\ call.returned
    /\ call.existing_points # <<>>
    /\ Len(call.existing_points) + Len(call.new_points) > MAX_ROI_POINTS
    /\ Len(call.new_points) < MAX_ROI_POINTS
    /\ call.ret[1] \in Range(call.existing_points)
    /\ call.ret[1] # call.existing_points[1]

(***************************************************************************)
(* Convex-hull estimator: properties. The geometry is stated here without  *)
(* the operators of the estimator and without an orientation of the ring.  *)
(***************************************************************************)
RingEdges(ring) == {<<ring[i], ring[(i % Len(ring)) + 1]>> : i \in DOMAIN ring}

\* the side of the line through edge e on which p lies, relative to the side of
\* the ring: positive inside, negative outside, 0 on the line
SideOf(ring, e, p) ==
    LET other == CHOOSE c \in Range(ring) : Cross(e[1], e[2], c) # 0
        sign == IF Cross(e[1], e[2], other) > 0 THEN 1 ELSE -1
    IN  sign * Cross(e[1], e[2], p)

StrictlyInside(ring, p) == \A e \in RingEdges(ring) : SideOf(ring, e, p) > 0

StrictlyOutside(ring, p) == \E e \in RingEdges(ring) : SideOf(ring, e, p) < 0

\* ring is the boundary of the convex hull of the points S: its vertices are
\* points of S, no vertex lies on the line of an edge it does not belong to,
\* and no point of S is strictly outside
IsHullOf(ring, S) ==
    /\ Len(ring) >= 3
    /\ Range(ring) \subseteq S
    /\ Cardinality(Range(ring)) = Len(ring)
    /\ \A e \in RingEdges(ring) :
         \A v \in Range(ring) \ {e[1], e[2]} : SideOf(ring, e, v) > 0
    /\ \A p \in S : ~StrictlyOutside(ring, p)

\* the camera's active row holds a polygon
HasPolygon(defs, camera_id) ==
    /\ ActiveRoiIds(defs, camera_id) # {}
    /\ "coordinates" \in DOMAIN defs[FirstActiveRoi(defs, camera_id)].definition_data

PolygonOf(defs, camera_id) == defs[FirstActiveRoi(defs, camera_id)].definition_data

\* this step is a call of the convex-hull estimator for a camera with a polygon
HullCallOnPolygon ==
    /\ roiRet'.fn = "tasks"
    /\ roiRet'.camera \in Cameras
    /\ HasPolygon(roiDefs, roiRet'.camera)

\* C12: an update of a camera with an active ROI polygon whose footprints all
\* lie strictly inside the boundary (or that has no footprints) returns False
\* and leaves the table, so the persisted vertices and area, unchanged.
InteriorPointsChangeNothing ==
    [][(/\ HullCallOnPolygon
        /\ \A fp \in Range(roiRet'.new_footprints) :
             StrictlyInside(PolygonOf(roiDefs, roiRet'.camera).coordinates, fp))
       => /\ roiRet'.ret = "False"
          /\ roiDefs' = roiDefs]_vars

\* an update with a footprint strictly inside an enlarged polygon has returned
\* False
InteriorUpdateRejected ==
    /\ roiRet.fn = "tasks"
    /\ roiRet.ret = "False"
    /\ roiRet.camera \in Cameras
    /\ HasPolygon(roiDefs, roiRet.camera)
    /\ roiRet.new_footprints # <<>>
    /\ \A fp \in Range(roiRet.new_footprints) :
         StrictlyInside(PolygonOf(roiDefs, roiRet.camera).coordinates, fp)
    /\ Range(PolygonOf(roiDefs, roiRet.camera).coordinates) # Range(Square)

\* C13: an update of a camera with an active ROI polygon that has a footprint
\* strictly outside the boundary returns True and persists the hull of the
\* previous vertices and the footprints, with a strictly larger area; and no
\* call of either estimator decreases the area of a camera's polygon.
OutsidePointsExpand ==
    [][/\ (/\ HullCallOnPolygon
           /\ \E fp \in Range(roiRet'.new_footprints) :
                StrictlyOutside(PolygonOf(roiDefs, roiRet'.camera).coordinates, fp))
          => /\ roiRet'.ret = "True"
             /\ HasPolygon(roiDefs', roiRet'.camera)
             /\ IsHullOf(PolygonOf(roiDefs', roiRet'.camera).coordinates,
                         Range(PolygonOf(roiDefs, roiRet'.camera).coordinates)
                            \cup Range(roiRet'.new_footprints))
             /\ 2 * PolygonOf(roiDefs', roiRet'.camera).area
                  = RingArea2(PolygonOf(roiDefs', roiRet'.camera).coordinates)
             /\ PolygonOf(roiDefs', roiRet'.camera).area
                  > PolygonOf(roiDefs, roiRet'.camera).area
       /\ \A camera_id \in Cameras :
            HasPolygon(roiDefs, camera_id)
            => /\ HasPolygon(roiDefs', camera_id)
               /\ PolygonOf(roiDefs', camera_id).area >= PolygonOf(roiDefs, camera_id).area]_vars

\* an update with a footprint outside the square has enlarged the polygon
ExpandedBeyondSquare ==
    /\ roiRet.fn = "tasks"
    /\ roiRet.ret = "True"
    /\ HasPolygon(roiDefs, roiRet.camera)
    /\ roiDefs[FirstActiveRoi(roiDefs, roiRet.camera)].created_at < now
    /\ roiDefs[FirstActiveRoi(roiDefs, roiRet.camera)].updated_at = now
    /\ Range(Square) \ Range(PolygonOf(roiDefs, roiRet.camera).coordinates) # {}
    /\ \E fp \in Range(roiRet.new_footprints) :
         /\ StrictlyOutside(Square, fp)
         /\ fp \in Range(PolygonOf(roiDefs, roiRet.camera).coordinates)
    /\ 2 * PolygonOf(roiDefs, roiRet.camera).area > RingArea2(Square)

(***************************************************************************)
(* determine_congestion_level on its own: it is called for two raw values  *)
(* lower <= upper, each a number of hundredths.                            *)
(***************************************************************************)
MaxRawHundredths == 120

LevelInit ==
    /\ \E lo \in 0..MaxRawHundredths, hi \in 0..MaxRawHundredths :
         /\ lo <= hi
         /\ call = [fn |-> "determine_congestion_level",
                    lower |-> <<lo, 100>>, upper |-> <<hi, 100>>,
                    returned |-> FALSE, ret_lower |-> None, ret_upper |-> None]
    /\ roiDefs = <<>>
    /\ roiRet = [fn |-> "none", camera |-> 0, ret |-> None]
    /\ now = 0
    /\ PipeIdle
    /\ CacheModuleLevel

\* determine_congestion_level(lower); determine_congestion_level(upper)
LevelCall ==
    /\ call.fn = "determine_congestion_level"
    /\ ~call.returned
    /\ call' = [call EXCEPT !.ret_lower = determine_congestion_level(call.lower),
                            !.ret_upper = determine_congestion_level(call.upper),
                            !.returned = TRUE]
    /\ UNCHANGED <<pipeVars, roiVars, cacheVars>>

LevelNext == LevelCall

SpecLevel == LevelInit /\ [][LevelNext]_vars

\* the order LOW < MEDIUM < HIGH < VERY_HIGH
LevelRank(label) ==
    IF label = LOW THEN 1 ELSE IF label = MEDIUM THEN 2
    ELSE IF label = HIGH THEN 3 ELSE 4

\* raw = h hundredths, h < raw, for a fraction raw = <<n, d>>
RawIs(raw, h) == raw[1] * 100 = h * raw[2]
RawUnder(raw, h) == raw[1] * 100 < h * raw[2]

\* C14: determine_congestion_level is monotonically non-decreasing and gives
\* 0.05 -> LOW, 0.15 -> MEDIUM, 0.35 -> HIGH, 0.5 -> HIGH, 0.65 -> VERY_HIGH,
\* 0.9 -> VERY_HIGH.
LevelMonotoneWithCases ==
    call.fn = "determine_congestion_level" /\ call.returned
    => /\ LevelRank(call.ret_lower) <= LevelRank(call.ret_upper)
       /\ call.ret_upper \in CongestionLevelLabel
       /\ RawIs(call.upper, 5) => call.ret_upper = LOW
       /\ RawIs(call.upper, 15) => call.ret_upper = MEDIUM
       /\ RawIs(call.upper, 35) => call.ret_upper = HIGH
       /\ RawIs(call.upper, 50) => call.ret_upper = HIGH
       /\ RawIs(call.upper, 65) => call.ret_upper = VERY_HIGH
       /\ RawIs(call.upper, 90) => call.ret_upper = VERY_HIGH

\* 0.15 and 0.35 have been classified MEDIUM and HIGH
LevelCasesReturned ==
    /\ call.fn = "determine_congestion_level" /\ call.returned
    /\ RawIs(call.lower, 15) /\ call.ret_lower = MEDIUM
    /\ RawIs(call.upper, 35) /\ call.ret_upper = HIGH

\* C15: determine_congestion_level(v) is LOW iff v < 0.1, MEDIUM iff
\* 0.1 <= v < 0.35, HIGH iff 0.35 <= v < 0.6 and VERY_HIGH iff v >= 0.6.
LevelsBySpecThresholds ==
    call.fn = "determine_congestion_level" /\ call.returned
    => LET v == call.upper
       IN  /\ call.ret_upper = LOW <=> RawUnder(v, 10)
           /\ call.ret_upper = MEDIUM <=> (~RawUnder(v, 10) /\ RawUnder(v, 35))
           /\ call.ret_upper = HIGH <=> (~RawUnder(v, 35) /\ RawUnder(v, 60))
           /\ call.ret_upper = VERY_HIGH <=> ~RawUnder(v, 60)

(***************************************************************************)
(* The scorer on its own: calculate_and_save_congestion_event is called,   *)
(* by any caller and any number of times, for a snapshot whose AI stage    *)
(* has completed. The detections are what some detector output left in the *)
(* table; the ROI row is one an estimator wrote or an operator entered.    *)
(***************************************************************************)
MaxDetections == 3

\* rows of Detected_Objects of snapshot 1: persons with a tall box, a box whose
\* slice is one pixel, a box that is as large as the square ROI, a box of
\* height 0, and a car
DetectionRow(class_label, bbox_width, bbox_height) ==
    [snapshot |-> 1, class_label |-> class_label,
     bbox_width |-> bbox_width, bbox_height |-> bbox_height]

DetectionRows ==
    { DetectionRow("person", 2, 40),
      DetectionRow("person", 4, 10),
      DetectionRow("person", 4 * GridSize * GridSize, 20),
      DetectionRow("person", 6, 0),
      DetectionRow("car", 4, 4) }

DetectionTables ==
    UNION {[1..n -> DetectionRows] : n \in 0..MaxDetections}

\* a row entered by hand with the given definition_data
ManualRoiTable(data) == CreateRoi(<<>>, 1, "MANUAL_POLYGON", data, 0)

ScoreRoiTables ==
    { <<>>,
      InitialRoiTable,
      ManualRoiTable(EmptyMap),
      ManualRoiTable([type |-> "MANUAL_POLYGON", coordinates |-> Square]),
      ManualRoiTable([type |-> "MANUAL_POLYGON", coordinates |-> Square, area |-> 0]),
      ManualRoiTable([type |-> "MANUAL_POLYGON", coordinates |-> Square, area |-> -4]) }

ScoreInit ==
    /\ snapshots = <<[camera |-> 1, processing_status_ai |-> COMPLETED,
                      processing_status_congestion |-> PENDING]>>
    /\ detected \in DetectionTables
    /\ events = <<>>
    /\ queue = async_task(
                 async_task(<<>>, "analytics.services.analyze_snapshot_task", 1,
                            GroupKey("snapshot-analysis", 1)),
                 "analytics.tasks.calculate_congestion_for_snapshot_task", 1,
                 GroupKey("congestion-analysis", 1))
    /\ runs = [w \in Callers |-> IdleRun]
    /\ nruns = 0
    /\ roiDefs \in ScoreRoiTables
    /\ roiRet = [fn |-> "none", camera |-> 0, ret |-> None]
    /\ now = 0
    /\ call = NoCall
    /\ CacheModuleLevel

ScoreNext ==
    \/ \E w \in Callers, snapshot_id \in SnapshotIds : ScorerStart(w, snapshot_id)
    \/ \E w \in Callers : ScorerQuery(w)
    \/ \E w \in Callers : ScorerFail(w)
    \/ \E w \in Callers : ScorerCreate(w)

SpecScore == ScoreInit /\ [][ScoreNext]_vars

(***************************************************************************)
(* Scorer: properties of the events it creates                             *)
(***************************************************************************)
\* C16: every CongestionEvent has alert_triggered exactly when its level is
\* HIGH or VERY_HIGH and is created unacknowledged; a raw density of 1.0 gives
\* VERY_HIGH with the alert set.
AlertIffHighOrVeryHigh ==
    \A i \in DOMAIN events :
        /\ events[i].alert_triggered <=> events[i].congestion_level \in {HIGH, VERY_HIGH}
        /\ ~events[i].is_acknowledged
        /\ events[i].congestion_value_raw[1] = events[i].congestion_value_raw[2]
             => /\ events[i].congestion_level = VERY_HIGH
                /\ events[i].alert_triggered

\* the scorer has created an event of level HIGH with the alert set
AlertRaisedForHigh ==
    /\ \E i \in DOMAIN events :
         /\ events[i].congestion_level = HIGH
         /\ events[i].alert_triggered
    /\ snapshots[1].processing_status_congestion = COMPLETED

\* the person rows of a snapshot
PersonRowsOf(rows, snapshot_id) ==
    {i \in DOMAIN rows : rows[i].snapshot = snapshot_id /\ rows[i].class_label = "person"}

\* the sum of bbox_width * max(1, bbox_height * R) over the rows I, times 1 / R
RECURSIVE FootprintSumOver(_, _)
FootprintSumOver(rows, I) ==
    IF I = {} THEN 0
    ELSE LET i == CHOOSE j \in I : TRUE
             h == IF rows[i].bbox_height >= R_RATIO_DEN
                  THEN rows[i].bbox_height ELSE R_RATIO_DEN
         IN  rows[i].bbox_width * h + FootprintSumOver(rows, I \ {i})

\* C17: the raw value of an event is the sum of bbox_width * max(1,
\* bbox_height * R) over the person detections of its snapshot, divided by
\* the area of the camera's active ROI; person_count is the number of person
\* detections.
RawIsFootprintSumOverArea ==
    \A i \in DOMAIN events :
        LET e == events[i]
            I == PersonRowsOf(detected, e.snapshot)
            area == roiDefs[LatestActiveRoi(roiDefs, e.camera)].definition_data.area
        IN  /\ e.person_count = Cardinality(I)
            /\ e.estimated_roi_pixel_area = area
            /\ e.congestion_value_raw[2] > 0
            /\ e.congestion_value_raw[1] * (R_RATIO_DEN * area)
                 = FootprintSumOver(detected, I) * e.congestion_value_raw[2]

\* the camera of the snapshot has no active definition, or one without an area
\* above 0
NoUsableRoi(defs, camera_id) ==
    \/ ActiveRoiIds(defs, camera_id) = {}
    \/ LET data == defs[LatestActiveRoi(defs, camera_id)].definition_data
       IN  "area" \notin DOMAIN data \/ data.area <= 0

\* C18: a call of the scorer on a snapshot whose AI stage is COMPLETED, whose
\* congestion stage is not, and whose camera has no usable ROI area returns
\* None, creates no event and leaves the congestion status FAILED.
ScorerFailsWithoutRoi ==
    [][\A w \in Callers :
         (/\ Returns(w, "scorer")
          /\ runs'[w].sid \in DOMAIN snapshots
          /\ runs'[w].seen_ai = COMPLETED
          /\ runs'[w].seen_cong # COMPLETED
          /\ NoUsableRoi(roiDefs, snapshots[runs'[w].sid].camera))
         => /\ runs'[w].ret = None
            /\ events' = events
            /\ snapshots'[runs'[w].sid].processing_status_congestion = FAILED]_vars

\* the scorer has failed a snapshot because the active definition has no area
FailedForMissingArea ==
    \E w \in Callers :
        /\ runs[w].fn = "scorer" /\ runs[w].pc = "done"
        /\ runs[w].seen_ai = COMPLETED /\ runs[w].seen_cong = PENDING
        /\ runs[w].ret = None
        /\ ActiveRoiIds(roiDefs, snapshots[runs[w].sid].camera) # {}
        /\ NoUsableRoi(roiDefs, snapshots[runs[w].sid].camera)
        /\ snapshots[runs[w].sid].processing_status_congestion = FAILED
        /\ events = <<>>

(***************************************************************************)
(* Convex-hull estimator: a camera without an active ROI                   *)
(***************************************************************************)
\* three of the points S are not on one line
NonCollinearTriple(S) == \E a \in S, b \in S, c \in S : Cross(a, b, c) # 0

\* this step is a call of the convex-hull estimator for a camera that exists
\* and has no active row
HullCallWithoutRoi ==
    /\ roiRet'.fn = "tasks"
    /\ roiRet'.camera \in Cameras
    /\ ActiveRoiIds(roiDefs, roiRet'.camera) = {}

\* C19: for a camera with no active ROI, a call of the convex-hull estimator
\* with at least 3 distinct footprints that are not all on one line returns
\* True and creates exactly one active row, whose coordinates are the vertices
\* of the convex hull of the footprints, each once, and whose area is the
\* hull's area; the square of side 100 gives 4 vertices and area 10000.
CreatesHullOfFootprints ==
    [][(/\ HullCallWithoutRoi
        /\ Cardinality(Range(roiRet'.new_footprints)) >= 3
        /\ NonCollinearTriple(Range(roiRet'.new_footprints)))
       => LET ids == ActiveRoiIds(roiDefs', roiRet'.camera)
          IN  /\ roiRet'.ret = "True"
              /\ Cardinality(ids) = 1
              /\ Len(roiDefs') = Len(roiDefs) + 1
              /\ \A id \in ids :
                   LET data == roiDefs'[id].definition_data
                   IN  /\ roiDefs'[id].definition_type = "DYNAMIC_CONVEX_HULL"
                       /\ IsHullOf(data.coordinates, Range(roiRet'.new_footprints))
                       /\ 2 * data.area = RingArea2(data.coordinates)
                       /\ roiRet'.new_footprints = Square100
                            => /\ Len(data.coordinates) = 4
                               /\ data.area = 10000]_vars

\* the last call has created the row of a camera from the square of side 100
CreatedFromSquare100 ==
    /\ roiRet.fn = "tasks"
    /\ roiRet.ret = "True"
    /\ roiRet.new_footprints = Square100
    /\ \E id \in DOMAIN roiDefs :
         /\ ActiveRoiIds(roiDefs, roiRet.camera) = {id}
         /\ roiDefs[id].created_at = now
         /\ Range(roiDefs[id].definition_data.coordinates) = Range(Square100)
         /\ roiDefs[id].definition_data.area = 10000

\* C20: a call of the convex-hull estimator for a camera id that does not
\* exist, or for a camera with no active ROI with fewer than 3 distinct
\* footprints or with footprints all on one line, returns False and creates
\* no row.
NoShapeReturnsFalse ==
    [][(/\ roiRet'.fn = "tasks"
        /\ \/ roiRet'.camera \notin Cameras
           \/ /\ ActiveRoiIds(roiDefs, roiRet'.camera) = {}
              /\ \/ Cardinality(Range(roiRet'.new_footprints)) < 3
                 \/ ~NonCollinearTriple(Range(roiRet'.new_footprints)))
       => /\ roiRet'.ret = "False"
          /\ roiDefs' = roiDefs]_vars

\* a call with three distinct footprints on one line, for a camera without a
\* row, has returned False
CollinearFootprintsRejected ==
    /\ roiRet.fn = "tasks"
    /\ roiRet.ret = "False"
    /\ roiRet.camera \in Cameras
    /\ ActiveRoiIds(roiDefs, roiRet.camera) = {}
    /\ Cardinality(Range(roiRet.new_footprints)) >= 3
    /\ ~NonCollinearTriple(Range(roiRet.new_footprints))

(***************************************************************************)
(* Alpha-shape estimator: the points-only record                           *)
(***************************************************************************)
\* this step is a call of the alpha-shape estimator for a camera that exists
AlphaCallOnCamera ==
    /\ roiRet'.fn = "congestion_analysis_tasks"
    /\ roiRet'.camera \in Cameras

\* after the step the camera has an active row that holds exactly the points
\* of the deduplicated merged window and the start time of the cycle
PointsAndMarkerPersisted ==
    /\ ActiveRoiIds(roiDefs', roiRet'.camera) # {}
    /\ LET data == roiDefs'[FirstActiveRoi(roiDefs', roiRet'.camera)].definition_data
       IN  /\ "roi_defining_points" \in DOMAIN data
           /\ Len(data.roi_defining_points) = Len(roiRet'.unique_points)
           /\ Range(data.roi_defining_points)
                = Range(UpdatedPoints(roiDefs, roiRet'.camera, roiRet'.new_footprints))
           /\ "last_processed_timestamp" \in DOMAIN data
           /\ data.last_processed_timestamp = Isoformat(now')

\* the step leaves the boundary and the area of the camera as they were
BoundaryUntouched ==
    LET cur == FirstActiveRoi(roiDefs, roiRet'.camera)
        new == FirstActiveRoi(roiDefs', roiRet'.camera)
        Boundary(data) == [k \in DOMAIN data \cap {"area", "vertices", "coordinates"} |-> data[k]]
    IN  IF new = 0 THEN TRUE
        ELSE IF cur = 0 THEN Boundary(roiDefs'[new].definition_data) = <<>>
        ELSE Boundary(roiDefs'[new].definition_data) = Boundary(roiDefs[cur].definition_data)

\* C21: when the deduplicated merged window of a camera has fewer than
\* MIN_POINTS_FOR_ROI points, the alpha-shape estimator persists an active
\* points-only record with exactly those points and the cycle's start time
\* (creating it if the camera has none), computes no boundary and returns
\* False.
FewPointsSavedPointsOnly ==
    [][(/\ AlphaCallOnCamera
        /\ Cardinality(Range(UpdatedPoints(roiDefs, roiRet'.camera,
                                           roiRet'.new_footprints))) < MIN_POINTS_FOR_ROI)
       => /\ roiRet'.ret = "False"
          /\ PointsAndMarkerPersisted
          /\ BoundaryUntouched]_vars

\* C22: when alphashape fails or returns something that is not a Polygon or
\* MultiPolygon, the alpha-shape estimator returns False without raising and
\* the camera's active row holds every point of the deduplicated merged window
\* and the new last_processed_timestamp, whether or not the camera had a row.
ShapeFailureKeepsPoints ==
    [][(/\ AlphaCallOnCamera
        /\ Len(roiRet'.unique_points) >= MIN_POINTS_FOR_ROI
        /\ roiRet'.shape \in {"raise", "LineString"})
       => /\ roiRet'.ret = "False"
          /\ PointsAndMarkerPersisted]_vars

(***************************************************************************)
(* The point window over successive cycles: in the cycle that starts at    *)
(* time t the estimator is given the footprints Batch(t), so a point       *)
(* <<x, y>> was observed in cycle y / 2 as the (x / 2)-th footprint of it. *)
(***************************************************************************)
FifoInit ==
    /\ roiDefs = InitialRoiTable
    /\ roiRet = [fn |-> "none", camera |-> 0, ret |-> None]
    /\ now = 0
    /\ call = NoCall
    /\ PipeIdle
    /\ CacheModuleLevel

FifoNext ==
    \E camera_id \in CameraIds :
       \E unique_points \in ListOfSet(UpdatedPoints(roiDefs, camera_id, Batch(now + 1))),
           optimized \in OptimizeOutcomes, shape \in AlphaShapeOutcomes :
          /\ \/ camera_id \in Cameras /\ Len(unique_points) >= MIN_POINTS_FOR_ROI
             \/ optimized = AnyOptimized /\ shape = AnyShape
          /\ AlphaShapeCall(camera_id, Batch(now + 1), unique_points, optimized, shape)

SpecFifo == FifoInit /\ [][FifoNext]_vars

\* p was observed before q
ObservedBefore(p, q) == p[2] < q[2] \/ (p[2] = q[2] /\ p[1] < q[1])

\* C30: across the cycles of a camera eviction by the cap is FIFO over
\* observation order: a point is evicted only if every point that is retained
\* was observed after it (which is what keeping the persisted
\* roi_defining_points ordered oldest to newest would give).
EvictionIsFifo ==
    [][(AlphaCallOnCamera /\ roiDefs' # roiDefs)
       => LET old  == ExistingPoints(roiDefs, FirstActiveRoi(roiDefs, roiRet'.camera))
              kept == ExistingPoints(roiDefs', FirstActiveRoi(roiDefs', roiRet'.camera))
              evicted == (Range(old) \cup Range(roiRet'.new_footprints)) \ Range(kept)
          IN  \A p \in evicted : \A q \in Range(kept) : ObservedBefore(p, q)]_vars

(***************************************************************************)
(* analytics/congestion_analysis_tasks.py: the periodic ROI task, which    *)
(* apps.py schedules hourly. now is the clock; a snapshot carries the time *)
(* of its capture, and its detections are inserted by the AI stage later.  *)
(* Q_CLUSTER runs one worker, so the cycle of a camera is not interleaved  *)
(* with the capture and AI tasks of the same cluster. Time is counted in   *)
(* hours.                                                                  *)
(***************************************************************************)
INITIAL_FETCH_DAYS == 7
MaxTime == 1
MaxCycleSnapshots == 2
MaxPeriodicRuns == 2

\* datetime.timedelta(days=days, hours=hours)
timedelta(days, hours) == 24 * days + hours

DetectedRow(class_label, center_x, bbox_y, bbox_height) ==
    [class_label |-> class_label, center_x |-> center_x, bbox_y |-> bbox_y,
     bbox_height |-> bbox_height]

\* what the AI stage may insert for a snapshot
CycleDetections ==
    { <<DetectedRow("person", Value(0), 0, 0), DetectedRow("car", Value(6), 0, 6),
        DetectedRow("person", NULL, 0, 8)>>,
      <<DetectedRow("person", Value(4), 0, 0), DetectedRow("person", Value(0), 2, 2),
        DetectedRow("person", Value(4), 2, 2)>> }

\* datetime.isoformat() and dateutil's isoparse() of it
Isoparse(text) == text[2]

\* the rows of a queryset ordered by key, rows of equal key in the order ties
RECURSIVE OrderBy(_, _, _)
OrderBy(ids, key, ties) ==
    IF ids = {} THEN <<>>
    ELSE LET first == CHOOSE i \in ids : \A j \in ids :
                         \/ key[i] < key[j]
                         \/ key[i] = key[j] /\ (IF ties = "asc" THEN i <= j ELSE i >= j)
         IN  <<first>> \o OrderBy(ids \ {first}, key, ties)

TieOrders == {"asc", "desc"}

\* A faulty query: the filter class_label='person' is missing
FootprintQueryAnyLabel(snaps, dets, camera_id, start_time, ties) ==
    OrderBy({i \in DOMAIN dets :
                /\ snaps[dets[i].snapshot].camera = camera_id
                /\ snaps[dets[i].snapshot].captured_at > start_time},
            [i \in DOMAIN dets |-> snaps[dets[i].snapshot].captured_at], ties)

\* lines 331-335: the ids of the person detections of the camera's snapshots
\* captured after start_time, ordered by the time of capture
FootprintQuery(snaps, dets, camera_id, start_time, ties) ==
    OrderBy({i \in DOMAIN dets :
                /\ snaps[dets[i].snapshot].camera = camera_id
                /\ snaps[dets[i].snapshot].captured_at > start_time
                /\ dets[i].class_label = "person"},
            [i \in DOMAIN dets |-> snaps[dets[i].snapshot].captured_at], ties)

\* lines 337-341: one footprint for every row whose columns are all present
get_footprints_from_detected_objects(dets, rows) ==
    LET complete == SelectSeq(rows, LAMBDA i : dets[i].center_x # NULL)
    IN  [k \in DOMAIN complete |->
            <<dets[complete[k]].center_x[1],
              dets[complete[k]].bbox_y + dets[complete[k]].bbox_height>>]

\* the task between runs. visited records the cameras the loop of the run
\* reached and how the cycle of each ended; log records the rows handed to
\* every cycle that persisted
PeriodicIdle ==
    [fn |-> "update_all_camera_rois_periodic_task", pc |-> "idle", started |-> 0,
     i |-> 0, updated_count |-> 0, error_count |-> 0,
     visited |-> <<>>, log |-> <<>>]

\* the clock advances
Tick ==
    /\ now < MaxTime
    /\ now' = now + 1
    /\ UNCHANGED <<call, pipeVars, roiDefs, roiRet, cacheVars>>

\* capture.py: a snapshot of the camera is created with the time of capture
CaptureAt(camera_id) ==
    /\ Len(snapshots) < MaxCycleSnapshots
    /\ snapshots' = Append(snapshots, [camera |-> camera_id, captured_at |-> now,
                                       processing_status_ai |-> PENDING,
                                       processing_status_congestion |-> PENDING])
    /\ UNCHANGED <<call, detected, events, queue, runs, nruns, roiVars, cacheVars>>

\* analyze_snapshot_task: the AI stage inserts the detections of a snapshot
InsertDetections(snapshot_id, detections) ==
    /\ snapshot_id \in DOMAIN snapshots
    /\ snapshots[snapshot_id].processing_status_ai = PENDING
    /\ snapshots' = [snapshots EXCEPT ![snapshot_id].processing_status_ai = COMPLETED]
    /\ detected' = detected \o
                     [k \in DOMAIN detections |->
                         [snapshot |-> snapshot_id] @@ detections[k]]
    /\ UNCHANGED <<call, events, queue, runs, nruns, roiVars, cacheVars>>

\* lines 346-356: the run starts with its counters at 0
PeriodicStart ==
    /\ call.pc \in {"idle", "done"}
    /\ call.started < MaxPeriodicRuns
    /\ call' = [call EXCEPT !.pc = "loop", !.started = @ + 1, !.i = 1,
                            !.updated_count = 0, !.error_count = 0,
                            !.visited = <<>>]
    /\ UNCHANGED <<pipeVars, roiVars, cacheVars>>

\* A faulty start time: the stored last_processed_timestamp is ignored
StartTimeIgnoresMarker(defs, camera_id, t) == t - timedelta(INITIAL_FETCH_DAYS, 0)

\* lines 362-370: the time the camera's query starts from
StartTime(defs, camera_id, t) ==
    LET cur == FirstActiveRoi(defs, camera_id)
    IN  IF cur # 0 /\ "last_processed_timestamp" \in DOMAIN defs[cur].definition_data
        THEN Isoparse(defs[cur].definition_data.last_processed_timestamp)
        ELSE t - timedelta(INITIAL_FETCH_DAYS, 0)

\* A faulty loop: a camera without new footprints is counted as an error
LoopCountsSkipAsError(c, camera_id, ret) ==
    [c EXCEPT !.updated_count = @ + (IF ret = "True" THEN 1 ELSE 0),
              !.error_count = @ + (IF ret = "True" THEN 0 ELSE 1),
              !.i = @ + 1,
              !.pc = IF camera_id = NumCameras THEN "done" ELSE "loop"]

\* lines 357-395: the counters and the loop after the camera was processed;
\* ret is "continue" when no footprint was found, the value the service
\* returned, or the exception it raised
LoopAfterCamera(c, camera_id, ret) ==
    [c EXCEPT !.updated_count = @ + (IF ret = "True" THEN 1 ELSE 0),
              !.error_count = @ + (IF ret \in {"True", "continue"} THEN 0 ELSE 1),
              !.i = @ + 1,
              !.pc = IF camera_id = NumCameras THEN "done" ELSE "loop"]

\* lines 357-395: the cycle of one camera of the run. The set iteration order
\* and the outcomes of the library are drawn only where the cycle reaches them
PeriodicCamera(ties, unique_points, optimized, shape) ==
    /\ call.pc = "loop"
    /\ LET camera_id == call.i
           start_time == StartTime(roiDefs, camera_id, now)
           current_task_start_time == now
           rows == FootprintQuery(snapshots, detected, camera_id, start_time, ties)
           new_footprints == get_footprints_from_detected_objects(detected, rows)
           reached == new_footprints # <<>> /\ Len(unique_points) >= MIN_POINTS_FOR_ROI
           r == IF new_footprints = <<>>
                THEN [defs |-> roiDefs, c |-> TheCache, ret |-> "continue"]
                ELSE AlphaShapeUpdate(roiDefs, TheCache, camera_id, new_footprints,
                                      current_task_start_time, unique_points,
                                      optimized, shape)
           persisted == r.defs # roiDefs
       IN  /\ IF new_footprints = <<>>
              THEN unique_points = <<>>
              ELSE unique_points \in
                      ListOfSet(UpdatedPoints(roiDefs, camera_id, new_footprints))
           /\ reached \/ (optimized = AnyOptimized /\ shape = AnyShape)
           /\ roiDefs' = r.defs
           /\ cache' = r.c.cache
           /\ access_order' = r.c.access_order
           /\ roiRet' = [fn |-> "update_all_camera_rois_periodic_task",
                         camera |-> camera_id, start_time |-> start_time,
                         rows |-> rows, new_footprints |-> new_footprints,
                         ret |-> r.ret, persisted |-> persisted]
           /\ call' = [LoopAfterCamera(call, camera_id, r.ret) EXCEPT
                          !.visited = Append(@, [camera |-> camera_id,
                                                 ret |-> r.ret]),
                          !.log = IF persisted
                                  THEN Append(@, [camera |-> camera_id, rows |-> rows])
                                  ELSE @]
    /\ UNCHANGED <<pipeVars, now, max_size, cacheRet, hist>>

\* the cycle of the loop's next camera, with the order of rows captured at the
\* same time, the set iteration order and the outcomes of the library drawn
PeriodicCycle ==
    /\ call.pc = "loop"
    /\ \E ties \in TieOrders :
          \E unique_points \in {<<>>} \cup
                  ListOfSet(UpdatedPoints(roiDefs, call.i,
                      get_footprints_from_detected_objects(detected,
                          FootprintQuery(snapshots, detected, call.i,
                                         StartTime(roiDefs, call.i, now), ties)))),
              optimized \in OptimizeOutcomes, shape \in AlphaShapeOutcomes :
             PeriodicCamera(ties, unique_points, optimized, shape)

CycleInit ==
    /\ roiDefs = InitialRoiTable
    /\ roiRet = [fn |-> "none", camera |-> 0, ret |-> None]
    /\ now = 0
    /\ call = PeriodicIdle
    /\ PipeIdle
    /\ CacheModuleLevel

CycleNext ==
    \/ Tick
    \/ \E camera_id \in Cameras : CaptureAt(camera_id)
    \/ \E snapshot_id \in 1..MaxCycleSnapshots, detections \in CycleDetections :
          InsertDetections(snapshot_id, detections)
    \/ PeriodicStart
    \/ PeriodicCycle

SpecCycle == CycleInit /\ [][CycleNext]_vars

(***************************************************************************)
(* analytics/tasks.py: the periodic task of the convex-hull estimator, a   *)
(* Celery task. Its loop converts the rows as the task above does (lines   *)
(* 121-128), but its query and its loop differ.                            *)
(***************************************************************************)
\* tasks.py lines 115-119: the ids of the person detections of the camera's
\* snapshots captured at start_time or later; the query has no order_by, so the
\* rows come in an order the database chooses
TasksFootprintQuery(snaps, dets, camera_id, start_time, ties) ==
    OrderBy({i \in DOMAIN dets :
                /\ snaps[dets[i].snapshot].camera = camera_id
                /\ snaps[dets[i].snapshot].captured_at >= start_time
                /\ dets[i].class_label = "person"},
            [i \in DOMAIN dets |-> 0], ties)

TasksPeriodicIdle ==
    [fn |-> "update_all_camera_rois_periodic", pc |-> "idle", started |-> 0,
     i |-> 0, start_time_for_footprints |-> 0, updated_count |-> 0,
     visited |-> <<>>]

\* tasks.py lines 257-267: the run starts; the footprints of the last hour are
\* asked for
TasksPeriodicStart ==
    /\ call.pc \in {"idle", "done"}
    /\ call.started < MaxPeriodicRuns
    /\ call' = [call EXCEPT !.pc = "loop", !.started = @ + 1, !.i = 1,
                            !.start_time_for_footprints = now - timedelta(0, 1),
                            !.updated_count = 0, !.visited = <<>>]
    /\ UNCHANGED <<pipeVars, roiVars, cacheVars>>

\* tasks.py lines 267-277: the counter and the loop after the camera was
\* processed
TasksLoopAfterCamera(c, camera_id, ret) ==
    [c EXCEPT !.updated_count = @ + (IF ret = "True" THEN 1 ELSE 0),
              !.i = @ + 1,
              !.pc = IF camera_id = NumCameras THEN "done" ELSE "loop"]

\* tasks.py lines 267-277: the cycle of one camera of the run
TasksPeriodicCamera(ties) ==
    /\ call.pc = "loop"
    /\ LET camera_id == call.i
           start_time == call.start_time_for_footprints
           rows == TasksFootprintQuery(snapshots, detected, camera_id, start_time, ties)
           new_footprints == get_footprints_from_detected_objects(detected, rows)
           r == IF new_footprints = <<>>
                THEN [defs |-> roiDefs, ret |-> "continue"]
                ELSE ConvexHullUpdate(roiDefs, camera_id, new_footprints, now)
       IN  /\ roiDefs' = r.defs
           /\ roiRet' = [fn |-> "update_all_camera_rois_periodic",
                         camera |-> camera_id, start_time |-> start_time,
                         rows |-> rows, new_footprints |-> new_footprints,
                         ret |-> r.ret, persisted |-> r.defs # roiDefs]
           /\ call' = [TasksLoopAfterCamera(call, camera_id, r.ret) EXCEPT
                          !.visited = Append(@, [camera |-> camera_id,
                                                 ret |-> r.ret])]
    /\ UNCHANGED <<pipeVars, now, cacheVars>>

TasksInit ==
    /\ roiDefs = InitialRoiTable
    /\ roiRet = [fn |-> "none", camera |-> 0, ret |-> None]
    /\ now = 0
    /\ call = TasksPeriodicIdle
    /\ PipeIdle
    /\ CacheModuleLevel

TasksNext ==
    \/ Tick
    \/ \E camera_id \in Cameras : CaptureAt(camera_id)
    \/ \E snapshot_id \in 1..MaxCycleSnapshots, detections \in CycleDetections :
          InsertDetections(snapshot_id, detections)
    \/ TasksPeriodicStart
    \/ \E ties \in TieOrders : TasksPeriodicCamera(ties)

SpecTasks == TasksInit /\ [][TasksNext]_vars

\* a step that is the cycle of one camera
CycleStep == call.pc = "loop" /\ call'.i = call.i + 1

\* the time the stored marker of the camera stands for, or 7 days before t
MarkerOrDefault(defs, camera_id, t) ==
    LET cur == FirstActiveRoi(defs, camera_id)
    IN  IF cur # 0 /\ "last_processed_timestamp" \in DOMAIN defs[cur].definition_data
        THEN defs[cur].definition_data.last_processed_timestamp[2]
        ELSE t - 7 * 24

\* C23: every cycle queries only detections captured strictly after the stored
\* last_processed_timestamp of its camera (now - 7 days when there is none), a
\* cycle that persists stores its own start time as the new marker, and so no
\* detection is handed to two cycles that both persisted.
CyclesShareNoDetection ==
    [][CycleStep =>
         /\ \A i \in Range(roiRet'.rows) :
               snapshots[detected[i].snapshot].captured_at
                  > MarkerOrDefault(roiDefs, call.i, now)
         /\ roiRet'.persisted =>
               roiDefs'[FirstActiveRoi(roiDefs', call.i)].definition_data
                   .last_processed_timestamp = Isoformat(now)
         /\ \A a, b \in DOMAIN call'.log :
               a # b => Range(call'.log[a].rows) \cap Range(call'.log[b].rows) = {}]_vars

\* two cycles of camera 1 persisted, each with detections of its own, and the
\* second started from the marker the first one stored
TwoPersistedCycles ==
    /\ Len(call.log) = 2
    /\ call.log[1].camera = 1 /\ call.log[2].camera = 1
    /\ call.log[1].rows # <<>> /\ call.log[2].rows # <<>>
    /\ roiRet.fn = "update_all_camera_rois_periodic_task"
    /\ roiRet.camera = 1 /\ roiRet.persisted /\ roiRet.start_time >= 0

\* the footprints the claim describes for the camera and start time t: one
\* point per person detection captured after t with its columns present
ExpectedIds(camera_id, t) ==
    {i \in DOMAIN detected :
        /\ detected[i].class_label = "person"
        /\ snapshots[detected[i].snapshot].camera = camera_id
        /\ snapshots[detected[i].snapshot].captured_at > t
        /\ detected[i].center_x # NULL}

\* C24: get_footprints_from_detected_objects(camera, t) returns exactly one
\* point (center_x, bbox_y + bbox_height) for every person detection of the
\* camera that was captured strictly after t and has its columns present, in
\* the order of capture, and nothing else.
FootprintsAreNewPersonDetections ==
    [][CycleStep =>
         LET fp   == roiRet'.new_footprints
             ids  == ExpectedIds(call.i, roiRet'.start_time)
         IN  /\ Len(fp) = Cardinality(ids)
             /\ \E order \in [1..Len(fp) -> ids] :
                   /\ \A a, b \in 1..Len(fp) : a # b => order[a] # order[b]
                   /\ \A a, b \in 1..Len(fp) :
                         a < b => snapshots[detected[order[a]].snapshot].captured_at
                                    <= snapshots[detected[order[b]].snapshot].captured_at
                   /\ \A a \in 1..Len(fp) :
                         fp[a] = <<detected[order[a]].center_x[1],
                                   detected[order[a]].bbox_y
                                      + detected[order[a]].bbox_height>>]_vars

\* C25: in one run an exception or a failed update of one camera never keeps
\* the loop from the remaining cameras, every camera with new footprints is
\* counted exactly once, as updated or as error, and updated_count +
\* error_count is at most the number of active cameras.
EveryCameraVisitedAndCountedOnce ==
    LET with_footprints == {k \in DOMAIN call.visited : call.visited[k].ret # "continue"}
        error_count == IF "error_count" \in DOMAIN call THEN call.error_count ELSE 0
    IN  /\ call.updated_count + error_count = Cardinality(with_footprints)
        /\ call.updated_count + error_count <= NumCameras
        /\ call.pc = "done" =>
              [k \in DOMAIN call.visited |-> call.visited[k].camera]
                 = [k \in 1..NumCameras |-> k]

(***************************************************************************)
(* The scorer next to the estimators: calculate_and_save_congestion_event  *)
(* reads the camera's active ROIDefinition with one SELECT (services.py    *)
(* 148), and an estimator writes definition_data with one save() or one    *)
(* create(), each a single statement on one row; the calls of the scorer   *)
(* and of the estimators interleave in any order.                          *)
(***************************************************************************)
\* the footprints given to the estimators: a square, and a point outside of it
ReadFootprints == { Square100, <<<<2, 2>>>> }

ReadInit ==
    /\ snapshots = <<[camera |-> 1, processing_status_ai |-> COMPLETED,
                      processing_status_congestion |-> PENDING]>>
    /\ detected = <<DetectionRow("person", 2, 40)>>
    /\ events = <<>>
    /\ queue = <<>>
    /\ runs = [w \in Callers |-> IdleRun]
    /\ nruns = 0
    /\ roiDefs = <<>>
    /\ roiRet = [fn |-> "none", camera |-> 0, ret |-> None]
    /\ now = 0
    /\ call = NoCall
    /\ CacheModuleLevel

ReadNext ==
    \/ ScoreNext
    \/ RoiCalls(ReadFootprints, {<<<<2, 2>>>>})

SpecRead == ReadInit /\ [][ReadNext]_vars

\* the boundary of a definition_data: "coordinates" of the convex-hull
\* estimator or "vertices" of the alpha-shape estimator
BoundaryOf(data) ==
    IF "coordinates" \in DOMAIN data THEN data.coordinates
    ELSE IF "vertices" \in DOMAIN data THEN data.vertices
    ELSE <<>>

\* C26: whatever the scorer reads of a camera's active ROIDefinition while the
\* estimators update it, the boundary and the area it gets were written by the
\* same update: the area is the area of that boundary, never the area of
\* another update's boundary.
ScorerReadsOneUpdate ==
    \A w \in Callers :
        runs[w].roi # NULL =>
            LET data == runs[w].roi[1]
            IN  ("area" \in DOMAIN data /\ BoundaryOf(data) # <<>>) =>
                    /\ 2 * data.area = RingArea2(BoundaryOf(data))
                    /\ runs[w].area = data.area

\* two scorer runs read the ROI of camera 1, one before and one after an
\* estimator replaced its boundary and area
ReadBeforeAndAfterUpdate ==
    \E v, w \in Callers :
        /\ runs[v].roi # NULL /\ runs[w].roi # NULL
        /\ runs[v].roi[1].coordinates = Square100
        /\ runs[w].roi[1].coordinates # Square100
        /\ runs[w].roi[1].area > runs[v].roi[1].area

(***************************************************************************)
(* From the detector to the scorer and the ROI task. The image of a        *)
(* snapshot is modelled by what the detection model finds in it: boxes     *)
(* with a label and a confidence (in tenths). detect_objects is imported   *)
(* by services.py from ai_models.yolo_detector; it keeps the boxes of     *)
(* sufficient confidence. analyze_snapshot_task stores what it returns,    *)
(* the scorer and the ROI task select the rows labelled person.            *)
(***************************************************************************)
MinConfidence == 6

ModelBox(class_label, confidence, center_x, bbox_width, bbox_height) ==
    [class_label |-> class_label, confidence |-> confidence,
     center_x |-> Value(center_x), bbox_y |-> 0,
     bbox_width |-> bbox_width, bbox_height |-> bbox_height]

ConfidentPerson == ModelBox("person", 9, 2, 2, 40)
BarelyConfidentPerson == ModelBox("person", MinConfidence, 4, 4, 10)
DoubtfulPerson == ModelBox("person", MinConfidence - 1, 6, 6, 20)
ConfidentCar == ModelBox("car", 9, 8, 8, 30)

\* what the images of the snapshots may show
Images ==
    { <<ConfidentCar, DoubtfulPerson>>,
      <<ConfidentPerson, ConfidentCar, DoubtfulPerson>>,
      <<DoubtfulPerson, BarelyConfidentPerson>> }

\* detect_objects(image_path): the boxes of the image whose confidence is at
\* least the minimum
detect_objects(image) == SelectSeq(image, LAMBDA box : box.confidence >= MinConfidence)

\* analyze_snapshot_task on a snapshot: the detector runs on its image
AnalyzeImage(snapshot_id) ==
    /\ snapshot_id \in DOMAIN snapshots
    /\ InsertDetections(snapshot_id, detect_objects(snapshots[snapshot_id].image))

DetectInit ==
    /\ \E image \in Images :
          snapshots = <<[camera |-> 1, captured_at |-> 0, image |-> image,
                        processing_status_ai |-> PENDING,
                        processing_status_congestion |-> PENDING]>>
    /\ detected = <<>>
    /\ events = <<>>
    /\ queue = <<>>
    /\ runs = [w \in Callers |-> IdleRun]
    /\ nruns = 0
    /\ roiDefs = InitialRoiTable
    /\ roiRet = [fn |-> "none", camera |-> 0, ret |-> None]
    /\ now = 0
    /\ call = PeriodicIdle
    /\ CacheModuleLevel

DetectNext ==
    \/ \E snapshot_id \in SnapshotIds : AnalyzeImage(snapshot_id)
    \/ ScoreNext
    \/ PeriodicStart
    \/ PeriodicCycle

SpecDetect == DetectInit /\ [][DetectNext]_vars

\* the boxes of a snapshot's image that are persons of sufficient confidence
RetainedBoxes(snapshot_id) ==
    SelectSeq(snapshots[snapshot_id].image,
              LAMBDA box : box.class_label = "person" /\ box.confidence >= 6)

MaxCaptures == 3

CaptureFunctions == {"capture_snapshot_direct_ffmpeg", "capture_snapshot_hls_direct"}

\* subprocess.run(["ffmpeg", ...], timeout=15): the timeout expires, or ffmpeg
\* exits with a return code and leaves a file of some size
Ffmpeg(returncode, exists, size) ==
    [kind |-> "exit", returncode |-> returncode, exists |-> exists, size |-> size]

FfmpegOutcomes ==
    { [kind |-> "TimeoutExpired", returncode |-> 1, exists |-> TRUE, size |-> 500],
      Ffmpeg(1, FALSE, 0),
      Ffmpeg(1, TRUE, 500),
      Ffmpeg(0, FALSE, 0),
      Ffmpeg(0, TRUE, 999),
      Ffmpeg(0, TRUE, 1000) }

CallOutcomes == {"ok", "raise"}

\* lines 66-79 and 152-164: the frame grab is accepted
FrameGrabbed(ffmpeg) ==
    /\ ffmpeg.kind = "exit"
    /\ ffmpeg.returncode = 0
    /\ ffmpeg.exists
    /\ ffmpeg.size >= 1000

\* lines 24-111 and 114-194: one call of a capture function, with what ffmpeg,
\* Snapshots.objects.create and async_task turn out to do
CaptureSnapshot(fn, camera_id, ffmpeg, create, enqueue) ==
    /\ Len(snapshots) < MaxCaptures
    /\ LET grabbed == camera_id \in Cameras /\ FrameGrabbed(ffmpeg)
           created == grabbed /\ create = "ok"
           queued  == created /\ enqueue = "ok"
           snapshot_id == Len(snapshots) + 1
       IN  /\ snapshots' = IF created
                           THEN Append(snapshots,
                                       [camera |-> camera_id, captured_at |-> now,
                                        processing_status_ai |-> PENDING,
                                        processing_status_congestion |-> PENDING])
                           ELSE snapshots
           /\ queue' = IF queued
                       THEN async_task(queue, "analytics.services.analyze_snapshot_task",
                                       snapshot_id,
                                       GroupKey("snapshot-analysis", camera_id))
                       ELSE queue
           /\ call' = [fn |-> fn, camera |-> camera_id, ffmpeg |-> ffmpeg,
                       created |-> IF created THEN snapshot_id ELSE 0,
                       image_exists |->
                           IF camera_id \notin Cameras THEN FALSE
                           ELSE IF ~FrameGrabbed(ffmpeg)
                           THEN ffmpeg.exists /\ ~(ffmpeg.kind = "exit"
                                                    /\ ffmpeg.returncode = 0)
                           ELSE queued,
                       ret |-> queued]
    /\ UNCHANGED <<detected, events, runs, nruns, roiVars, cacheVars>>

CaptureInit ==
    /\ roiDefs = InitialRoiTable
    /\ roiRet = [fn |-> "none", camera |-> 0, ret |-> None]
    /\ now = 0
    /\ call = [fn |-> "none", camera |-> 0, ffmpeg |-> Ffmpeg(1, FALSE, 0),
               created |-> 0, image_exists |-> FALSE, ret |-> FALSE]
    /\ PipeIdle
    /\ CacheModuleLevel

CaptureNext ==
    \E fn \in CaptureFunctions, camera_id \in CameraIds, ffmpeg \in FfmpegOutcomes,
       create \in CallOutcomes, enqueue \in CallOutcomes :
       CaptureSnapshot(fn, camera_id, ffmpeg, create, enqueue)

SpecCapture == CaptureInit /\ [][CaptureNext]_vars

\* the AI tasks in the queue for the snapshot
AiTasksFor(snapshot_id) ==
    {k \in DOMAIN queue :
        /\ queue[k].func = "analytics.services.analyze_snapshot_task"
        /\ queue[k].arg = snapshot_id}

\* C28: a capture creates a Snapshots row only if the frame grab succeeded
\* (exit code 0, the file exists and has at least 1000 bytes), the row starts
\* as (PENDING, PENDING), and exactly one analyze_snapshot_task is enqueued for
\* it: no created snapshot is without an AI task.
CreatedSnapshotHasOneAiTask ==
    /\ call.created # 0 =>
          /\ call.ffmpeg.kind = "exit" /\ call.ffmpeg.returncode = 0
          /\ call.ffmpeg.exists /\ call.ffmpeg.size >= 1000
    /\ \A snapshot_id \in DOMAIN snapshots :
          /\ snapshots[snapshot_id].processing_status_ai = PENDING
          /\ snapshots[snapshot_id].processing_status_congestion = PENDING
          /\ Cardinality(AiTasksFor(snapshot_id)) = 1

(***************************************************************************)
(* The pipeline: the DetectedObjects rows of a snapshot                    *)
(***************************************************************************)
\* the rows analyze_snapshot_task creates for the detections of one detector
\* run
RowsFor(snapshot_id, detections) ==
    [k \in DOMAIN detections |->
        [snapshot |-> snapshot_id, class_label |-> detections[k].label,
         bbox_width |-> detections[k].bbox_width,
         bbox_height |-> detections[k].bbox_height]]

\* C29: in every reachable state the DetectedObjects rows of a snapshot are
\* empty or exactly the detections of one detector run whose AI stage ended
\* COMPLETED: a repeated analyze_snapshot_task does not duplicate rows, and a
\* run that ends FAILED leaves none of its rows behind. (While a run is
\* PROCESSING the rows it has inserted so far are allowed.)
RowsAreOneCompletedRun ==
    \A snapshot_id \in DOMAIN snapshots :
        LET rows == SelectSeq(detected, LAMBDA obj : obj.snapshot = snapshot_id)
            ai   == snapshots[snapshot_id].processing_status_ai
        IN  IF ai = COMPLETED
            THEN \E d \in DetectionOutcomes : rows = RowsFor(snapshot_id, d)
            ELSE IF ai = PROCESSING
            THEN \E d \in DetectionOutcomes : \E n \in 0..Len(d) :
                    rows = RowsFor(snapshot_id, SubSeq(d, 1, n))
            ELSE rows = <<>>

(***************************************************************************)
(* The cycle of a camera without new footprints (lines 379-383).           *)
(***************************************************************************)
\* C31: a cycle that finds no new footprint for its camera leaves every
\* ROIDefinitions row as it was (boundary, area, points and
\* last_processed_timestamp) and counts the camera neither as updated nor as
\* error.
SkippedCameraChangesNothing ==
    [][(CycleStep /\ roiRet'.new_footprints = <<>>) =>
          /\ roiDefs' = roiDefs
          /\ call'.updated_count = call.updated_count
          /\ call'.error_count = call.error_count]_vars

\* camera 1 was skipped by a cycle that started from a stored marker, after
\* an earlier cycle of the run history had stored it
SkippedWithStoredMarker ==
    /\ roiRet.fn = "update_all_camera_rois_periodic_task"
    /\ roiRet.camera = 1
    /\ roiRet.ret = "continue"
    /\ roiRet.new_footprints = <<>>
    /\ "last_processed_timestamp" \in
          DOMAIN roiDefs[FirstActiveRoi(roiDefs, 1)].definition_data
    /\ call.log # <<>>

(***************************************************************************)
(* The capture functions: the output file after a failed attempt           *)
(***************************************************************************)
\* C32: after every failed capture attempt (ffmpeg exits with a non-zero
\* code, the 15 s timeout expires, the output file is missing or smaller than
\* 1000 bytes, or a statement raises) the function returns False and no image
\* file is left at the output path of the attempt.
FailedCaptureLeavesNoFile ==
    call.fn \in CaptureFunctions =>
        /\ ~FrameGrabbed(call.ffmpeg) => ~call.ret
        /\ ~call.ret => ~call.image_exists

(***************************************************************************)
(* The alpha-shape estimator: the record of a computed boundary (lines     *)
(* 255-283).                                                               *)
(***************************************************************************)
\* C33: when alphashape returns a Polygon or a MultiPolygon for the
\* deduplicated window, update_roi_for_camera_service persists an active
\* record whose area is the area of the polygon of its stored vertices (the
\* largest component of a MultiPolygon), together with the full deduplicated
\* point set, the alpha value used and the start time of the cycle as
\* last_processed_timestamp, and returns True.
BoundaryRecordIsConsistent ==
    [][(/\ AlphaCallOnCamera
        /\ Len(roiRet'.unique_points) >= MIN_POINTS_FOR_ROI
        /\ roiRet'.shape \in {"Polygon", "MultiPolygon"})
       => /\ roiRet'.ret = "True"
          /\ ActiveRoiIds(roiDefs', roiRet'.camera) # {}
          /\ LET data == roiDefs'[FirstActiveRoi(roiDefs', roiRet'.camera)].definition_data
             IN  /\ {"area", "vertices", "roi_defining_points", "alpha_value",
                      "last_processed_timestamp"} \subseteq DOMAIN data
                 /\ 2 * data.area = RingArea2(data.vertices)
                 /\ data.roi_defining_points = roiRet'.unique_points
                 /\ data.last_processed_timestamp = Isoformat(now')]_vars

(***************************************************************************)
(* The pipeline: the two stages on one Snapshots row                       *)
(***************************************************************************)
\* caller w's invocation of fn takes this step
Acts(w, fn) == runs'[w] # runs[w] /\ runs'[w].fn = fn

\* C34: in every interleaving of analyze_snapshot_task and
\* calculate_and_save_congestion_event on the same snapshot, no step of the
\* scorer changes the persisted processing_status_ai and no step of the AI
\* stage changes the persisted processing_status_congestion.
StagesWriteOwnStatusOnly ==
    [][\A w \in Callers : \A sid \in DOMAIN snapshots :
         /\ Acts(w, "scorer") =>
               snapshots'[sid].processing_status_ai = snapshots[sid].processing_status_ai
         /\ Acts(w, "analyze") =>
               snapshots'[sid].processing_status_congestion
                  = snapshots[sid].processing_status_congestion]_vars

\* C35: at most one CongestionEvents row exists per snapshot, also when two
\* invocations of calculate_and_save_congestion_event for the same snapshot
\* overlap and both read the status before either commits.
AtMostOneEventPerSnapshot ==
    \A sid \in DOMAIN snapshots : Cardinality(EventsOf(events, sid)) <= 1

\* C36: in every reachable state a snapshot has a CongestionEvents row if and
\* only if its processing_status_congestion is COMPLETED.
EventIffCongestionCompleted ==
    \A sid \in DOMAIN snapshots :
        EventsOf(events, sid) # {}
            <=> snapshots[sid].processing_status_congestion = COMPLETED

(***************************************************************************)
(* AlphaCache: the queue against the dictionary                            *)
(***************************************************************************)
\* C37: after any sequence of get_alpha and set_alpha calls, also with
\* set_alpha for a key that is already cached, the access-order queue holds
\* exactly the keys of the cache, each once, and no call has raised.
QueueHoldsCacheKeysOnce ==
    /\ Range(access_order) = DOMAIN cache
    /\ Len(access_order) = Cardinality(DOMAIN cache)
    /\ \A i \in DOMAIN hist : hist[i].raised = None

(***************************************************************************)
(* The pipeline driven by the queue. The cluster of Q_CLUSTER has one      *)
(* worker, which takes the tasks in the order they were queued and runs    *)
(* each to its end before it takes the next; queue keeps every task ever   *)
(* queued, and the worker has taken the first nruns of them. The worker    *)
(* is never held back: weak fairness on its steps.                         *)
(***************************************************************************)
workers == 1
MaxLiveSnapshots == 2

Workers == 1..workers

\* the task services.py line 285 names: the congestion stage of the snapshot
calculate_congestion_for_snapshot_task(w, snapshot_id) == ScorerStart(w, snapshot_id)

\* the worker takes the next task of the queue and calls its function
Deliver(w) ==
    /\ Free(w)
    /\ nruns < Len(queue)
    /\ LET task == queue[nruns + 1]
       IN  \/ /\ task.func = "analytics.services.analyze_snapshot_task"
              /\ AnalyzeStart(w, task.arg)
           \/ /\ task.func = "analytics.tasks.calculate_congestion_for_snapshot_task"
              /\ calculate_congestion_for_snapshot_task(w, task.arg)

\* a capture function is called for a camera
LiveCapture ==
    /\ Len(snapshots) < MaxLiveSnapshots
    /\ \E fn \in CaptureFunctions, camera_id \in Cameras, ffmpeg \in FfmpegOutcomes,
          create \in CallOutcomes, enqueue \in CallOutcomes :
          CaptureSnapshot(fn, camera_id, ffmpeg, create, enqueue)

\* a step of the worker
WorkerStep ==
    \E w \in Workers :
        \/ Deliver(w)
        \/ \E detections \in DetectionOutcomes : AnalyzeDetect(w, detections)
        \/ AnalyzePersist(w)
        \/ AnalyzeRender(w)
        \/ AnalyzeSave(w)
        \/ AnalyzeEnqueue(w)
        \/ AnalyzeRaise(w)
        \/ AnalyzeExcept(w)
        \/ ScorerQuery(w)
        \/ ScorerFail(w)
        \/ ScorerCreate(w)

LiveInit ==
    /\ snapshots = <<>>
    /\ detected = <<>>
    /\ events = <<>>
    /\ queue = <<>>
    /\ runs = [w \in Workers |-> IdleRun]
    /\ nruns = 0
    /\ roiDefs = InitialRoiTable
    /\ roiRet = [fn |-> "none", camera |-> 0, ret |-> None]
    /\ now = 0
    /\ call = [fn |-> "none", camera |-> 0, ffmpeg |-> Ffmpeg(1, FALSE, 0),
               created |-> 0, image_exists |-> FALSE, ret |-> FALSE]
    /\ CacheModuleLevel

LiveNext ==
    \/ LiveCapture
    \/ WorkerStep

SpecLive == LiveInit /\ [][LiveNext]_vars /\ WF_vars(WorkerStep)

\* the snapshot has a terminal AI status and, when that is COMPLETED, a
\* terminal congestion status
Settled(sid) ==
    /\ snapshots[sid].processing_status_ai \in {COMPLETED, FAILED}
    /\ snapshots[sid].processing_status_ai = COMPLETED
          => snapshots[sid].processing_status_congestion \in {COMPLETED, FAILED}

\* C38: when the worker keeps executing the queued tasks and every call
\* returns or raises, every snapshot created by a capture eventually has a
\* terminal AI status and, if that is COMPLETED, a terminal congestion status,
\* and stays so: no snapshot remains PENDING or PROCESSING forever.
EverySnapshotSettles ==
    <>[](\A sid \in DOMAIN snapshots : Settled(sid))

(***************************************************************************)
(* The marker against the AI stage: the rows of a snapshot are inserted    *)
(* some time after the snapshot was captured, and a cycle fetches the rows *)
(* of snapshots captured after the marker. The marker of a camera never    *)
(* moves back, so a row that is behind the marker when it is inserted is   *)
(* fetched by no later cycle; a row ahead of it is fetched by the next.    *)
(***************************************************************************)
\* C39: no person detection is lost by the marker: in every interleaving of
\* the AI stage with the cycles, a person detection with complete data of a
\* snapshot captured inside the back-fill window is eventually handed to a
\* cycle as a new footprint. That is, whenever the AI stage inserts such a
\* detection its snapshot was captured after the marker the camera has stored
\* by then.
NoDetectionBehindMarker ==
    [][\A i \in (DOMAIN detected') \ (DOMAIN detected) :
         LET snap == snapshots[detected'[i].snapshot]
         IN  (/\ detected'[i].class_label = "person"
              /\ detected'[i].center_x # NULL
              /\ snap.captured_at > now - timedelta(INITIAL_FETCH_DAYS, 0))
             => snap.captured_at > MarkerOrDefault(roiDefs, snap.camera, now)]_vars

====
